---- MODULE Spec2Model ----
(***************************************************************************)
(* Task Execution Framework: the Act -> Assess -> Adapt engines.           *)
(*                                                                         *)
(*   SpecLight  TEF Light (src/TEF_Light/tef_light.py): the loop over a    *)
(*              task tree whose Adapt phase may replace the whole tree.    *)
(*   Spec       the recursive-ExecuteTask orchestrator                     *)
(*              (src/old/prototype1/tef_orchestrator.py): task queue,      *)
(*              failure counters, checkpoints, plan modifier, main loop.   *)
(*   SpecRecovery, SpecTimeout, SpecObserve, SpecModify                    *)
(*              units of the orchestrator run on their own: the failure    *)
(*              handler, the phase timeout, the observers, modify_plan.    *)
(***************************************************************************)
EXTENDS Integers, Sequences, FiniteSets, TLC

VARIABLES
    \* ---- TEF Light ----
    task_tree,      \* execute_task's local task_tree: the current tree
    task,           \* execute_task's local task: None or Some(path of the node)
    task_in_tree,   \* TRUE while the object `task` is a node of task_tree
    lpc,            \* position in the loop body of execute_task
    task_plan,      \* the task plan file given to _init_project
    project_files,  \* original_plan.json and current_plan.json of the project
    original_user_intent, \* adapt's original_intent at its last call, or None
    audit_log,      \* the records of the project's audit log, after its header
    \* ---- orchestrator (old/prototype1) ----
    task_queue,          \* task_queue.json: the list "tasks"
    current_task_file,   \* current_task.json: None or Some(task)
    failure_counts,      \* recovery_state["failure_counts"]: id -> counters
    checkpoints,         \* recovery_state["checkpoints"]: name -> checkpoint
    checkpoint_calls,    \* _create_checkpoint calls that returned True so far
    execution_history,   \* execution_history.json: the list "executions"
    plan_updates,        \* plan_updates.json: None or Some(decision)
    modify_success,      \* adapt_plan's local success in this iteration, or None
    current_iteration,   \* self.current_iteration
    current_task,        \* run_main_loop's current_task: None or Some(task)
    execution_result,    \* run_main_loop's execution_result: None or Some(result)
    subtask_results,     \* parent_result["subtask_results"] of the running parent
    executor_writes_task,\* the executor in use is AgentInvoker.invoke_executor
    pc,                  \* position in run_main_loop
    \* ---- orchestrator units run on their own ----
    phase_call,          \* _execute_with_timeout: the wrapped call, or None
    phase_record,        \* _execute_with_timeout: what it did last, or None
    next_observer,       \* gather_observations: position in enabled_observers
    observations,        \* gather_observations: the list observations
    assessment,          \* gather_observations: None or Some(assessment)
    decision_payload,    \* modify_plan: action_details of the decision, or None
    task_dict,           \* modify_plan: the dict current_task it is given, or None
    messages,            \* hub: data["messages"] of agent_messages.json
    hub_clock,           \* hub: datetime.now() at the last send_message
    read_result,         \* hub: the last get_messages_for_agent call, or None
    delivered            \* hub: the messages reads with mark_as_read returned

lightVars == <<task_tree, task, task_in_tree, lpc, task_plan, project_files,
               original_user_intent, audit_log>>

orchVars == <<task_queue, current_task_file, failure_counts, checkpoints,
              checkpoint_calls, execution_history, plan_updates, modify_success,
              current_iteration,
              current_task, execution_result, subtask_results,
              executor_writes_task, pc>>

hubVars == <<messages, hub_clock, read_result, delivered>>

unitVars == <<phase_call, phase_record, next_observer, observations, assessment,
              decision_payload, task_dict, hubVars>>

vars == <<lightVars, orchVars, unitVars>>

(***************************************************************************)
(* Optional values: Python's None and a present value.                     *)
(***************************************************************************)
None == <<>>
Some(v) == <<v>>

\* ======================================================================
\* TEF Light: TaskNode trees
\* ======================================================================

\* A node without children (children = None or []: both are falsy).
Leaf(id, status) == [id |-> id, status |-> status, children |-> <<>>]
Node(id, status, children) == [id |-> id, status |-> status, children |-> children]

NodeStatus == {"pending", "in_progress", "completed", "failed"}

RECURSIVE NodeAt(_, _)
NodeAt(tree, path) ==
    IF path = <<>> THEN tree ELSE NodeAt(tree.children[Head(path)], Tail(path))

RECURSIVE SetStatus(_, _, _)
SetStatus(tree, path, s) ==
    IF path = <<>>
    THEN [tree EXCEPT !.status = s]
    ELSE [tree EXCEPT !.children[Head(path)] =
                          SetStatus(tree.children[Head(path)], Tail(path), s)]

RECURSIVE ReplaceAt(_, _, _)
ReplaceAt(tree, path, sub) ==
    IF path = <<>>
    THEN sub
    ELSE [tree EXCEPT !.children[Head(path)] =
                          ReplaceAt(tree.children[Head(path)], Tail(path), sub)]

\* Every path of the tree, the root's being <<>>.
RECURSIVE PathsOf(_)
PathsOf(tree) ==
    {<<>>} \cup UNION { { <<i>> \o p : p \in PathsOf(tree.children[i]) }
                        : i \in DOMAIN tree.children }

NodeCount(tree) == Cardinality(PathsOf(tree))

\* Document order on paths: p comes strictly before q.
RECURSIVE DocBefore(_, _)
DocBefore(p, q) ==
    IF p = <<>> THEN q # <<>>
    ELSE IF q = <<>> THEN FALSE
    ELSE IF Head(p) # Head(q) THEN Head(p) < Head(q)
    ELSE DocBefore(Tail(p), Tail(q))

\* find_next_task, with the child loop of lines 131-134 as FindInChildren.
RECURSIVE find_next_task(_)
RECURSIVE FindInChildren(_, _)

\* find_next_task without the test that the node has no children.
find_next_task_any_node(tree) ==
    IF tree.status = "pending"
    THEN Some(<<>>)
    ELSE IF tree.children # <<>>
         THEN FindInChildren(tree, 1)
         ELSE None

FindInChildren(tree, i) ==
    IF i > Len(tree.children) THEN None
    ELSE LET next_task == find_next_task(tree.children[i])
         IN  IF next_task # None
             THEN Some(<<i>> \o next_task[1])
             ELSE FindInChildren(tree, i + 1)

find_next_task(tree) ==
    IF tree.children = <<>> /\ tree.status = "pending"
    THEN Some(<<>>)
    ELSE IF tree.children # <<>>
         THEN FindInChildren(tree, 1)
         ELSE None

\* ======================================================================
\* TEF Light: the plans a run starts from and what the Pathfinder returns
\* ======================================================================

\* Most nodes a tree may hold: the Pathfinder adds none beyond it.
MaxNodes == 5

InitialTrees ==
    { Leaf("r", "pending"),
      Node("r", "pending", <<Leaf("a", "pending"), Leaf("b", "pending")>>),
      Node("r", "pending", <<Leaf("a", "completed"), Leaf("b", "pending")>>),
      Node("r", "pending",
           <<Node("a", "pending", <<Leaf("a1", "pending"), Leaf("a2", "pending")>>),
             Leaf("b", "pending")>>),
      Node("r", "pending",
           <<Node("a", "pending", <<>>),
             Node("b", "completed", <<Leaf("b1", "pending")>>)>>) }

\* A leaf broken into two pending subtasks (the Pathfinder's Decompose tool).
Decomposed(node) ==
    Node(node.id, node.status,
         <<Leaf(node.id \o "1", "pending"), Leaf(node.id \o "2", "pending")>>)

\* The trees find_path may return for the tree it was shown: the same tree, the
\* tree with the current task's status rewritten, or the tree with one leaf
\* decomposed.  find_path returns None on an error of the service.
PathfinderTrees(tree, path) ==
    {tree}
    \cup { SetStatus(tree, path, s) : s \in NodeStatus }
    \cup { ReplaceAt(tree, p, Decomposed(NodeAt(tree, p))) :
             p \in { q \in PathsOf(tree) :
                       /\ NodeAt(tree, q).children = <<>>
                       /\ NodeCount(tree) + 2 <= MaxNodes } }

\* ======================================================================
\* TEF Light: execute_task
\* ======================================================================

\* The unit variables while an engine runs.
UnitIdle ==
    /\ phase_call = None
    /\ phase_record = None
    /\ next_observer = 1
    /\ observations = <<>>
    /\ assessment = None
    /\ decision_payload = None
    /\ task_dict = None
    /\ messages = <<>>
    /\ hub_clock = 0
    /\ read_result = None
    /\ delivered = {}

\* The orchestrator's variables while the TEF Light engine runs.
OrchIdle ==
    /\ task_queue = <<>>
    /\ current_task_file = None
    /\ failure_counts = <<>>
    /\ checkpoints = <<>>
    /\ checkpoint_calls = 0
    /\ execution_history = <<>>
    /\ plan_updates = None
    /\ modify_success = None
    /\ current_iteration = 0
    /\ current_task = None
    /\ execution_result = None
    /\ subtask_results = <<>>
    /\ executor_writes_task = FALSE
    /\ pc = "idle"

\* A plan file: the JSON of a bare task node, or of a tree with a 'root' key.
PlanFile(format, tree) == [format |-> format, tree |-> tree]

\* TaskTree.load_from_file: both formats give the tree.
load_from_file(file) == file.tree

\* TaskTree.save_to_file: the dump of the TaskTree, with its 'root' key.
save_to_file(tree) == PlanFile("root", tree)

\* _init_project, lines 63-64: the task plan is copied to both files.
init_project(plan) == [original_plan |-> plan, current_plan |-> plan]

\* _save_working_plan writing to original_plan.json.
save_working_plan_to_intent(files, root_task) ==
    [files EXCEPT !.original_plan = save_to_file(root_task)]

\* _save_working_plan: the tree is saved to current_plan.json.
save_working_plan(files, root_task) ==
    [files EXCEPT !.current_plan = save_to_file(root_task)]

\* Most records the audit log of a run explored holds.
MaxAuditRecords == 12

\* record opening the log with mode 'w'.
record_truncating(log, phase, task_id) == <<[phase |-> phase, task_id |-> task_id]>>

\* record, lines 311-316: one entry is appended to the audit log.
record(log, phase, task_id) == Append(log, [phase |-> phase, task_id |-> task_id])

\* _init_project, then execute_project loads the working plan.
InitLight ==
    /\ task_plan \in { PlanFile(f, t) : f \in {"node", "root"}, t \in InitialTrees }
    /\ project_files = init_project(task_plan)
    /\ original_user_intent = None
    /\ audit_log = <<>>
    /\ task_tree = load_from_file(project_files.current_plan)
    /\ task = None
    /\ task_in_tree = FALSE
    /\ lpc = "find"
    /\ OrchIdle
    /\ UnitIdle

\* Lines 82-87: pick the next task, or leave the loop; mark it in progress.
LightFind ==
    /\ lpc = "find"
    /\ Len(audit_log) + 3 <= MaxAuditRecords
    /\ LET found == find_next_task(task_tree)
       IN  IF found = None
           THEN /\ lpc' = "done"
                /\ UNCHANGED <<task_tree, task, task_in_tree>>
           ELSE /\ task' = found
                /\ task_in_tree' = TRUE
                /\ task_tree' = SetStatus(task_tree, found[1], "in_progress")
                /\ lpc' = "adapt"
    /\ UNCHANGED <<task_plan, project_files, original_user_intent, audit_log>>
    /\ UNCHANGED <<orchVars, unitVars>>

\* Lines 89-116: Act, Assess and Adapt; Adapt's tree, when there is one,
\* replaces task_tree, and `task` stays a node of the tree it was found in.
LightAdapt ==
    /\ lpc = "adapt"
    /\ \E updated_tree \in {None} \cup
                           { Some(t) : t \in PathfinderTrees(task_tree, task[1]) } :
          IF updated_tree # None
          THEN /\ task_tree' = updated_tree[1]
               /\ task_in_tree' = FALSE
               /\ project_files' = save_working_plan(project_files, updated_tree[1])
          ELSE UNCHANGED <<task_tree, task_in_tree, project_files>>
    /\ original_user_intent' = Some(project_files.original_plan)
    /\ LET node == NodeAt(task_tree, task[1])
           acted == IF node.children = <<>>
                    THEN record(audit_log, "ACT", node.id)
                    ELSE audit_log
       IN  audit_log' = record(record(acted, "ASSESS", node.id), "ADAPT", node.id)
    /\ lpc' = "complete"
    /\ UNCHANGED <<task, task_plan>>
    /\ UNCHANGED <<orchVars, unitVars>>

\* Line 119: task.status = "completed", on the object found at line 82.
LightComplete ==
    /\ lpc = "complete"
    /\ task_tree' = IF task_in_tree
                    THEN SetStatus(task_tree, task[1], "completed")
                    ELSE task_tree
    /\ lpc' = "find"
    /\ UNCHANGED <<task, task_in_tree, task_plan, project_files,
                   original_user_intent, audit_log>>
    /\ UNCHANGED <<orchVars, unitVars>>

NextLight == LightFind \/ LightAdapt \/ LightComplete

SpecLight == InitLight /\ [][NextLight]_vars

\* ======================================================================
\* TEF Light: properties
\* ======================================================================

PendingLeaves(tree) ==
    { p \in PathsOf(tree) :
        NodeAt(tree, p).children = <<>> /\ NodeAt(tree, p).status = "pending" }

InProgress(tree) ==
    { p \in PathsOf(tree) : NodeAt(tree, p).status = "in_progress" }

\* C2: find_next_task returns the first node in document order that has no
\* children and is pending, and None exactly when the tree has no such node.
C2_FindNextIsFirstPendingLeaf ==
    LET found == find_next_task(task_tree)
        Q == PendingLeaves(task_tree)
    IN  /\ (found = None) <=> (Q = {})
        /\ found # None =>
              /\ found[1] \in Q
              /\ \A q \in Q \ {found[1]} : DocBefore(found[1], q)

\* A tree where the answer is neither the first leaf nor the last pending one,
\* and lies below a pending node that has children.
C2_Witness ==
    LET found == find_next_task(task_tree)
    IN  /\ found # None
        /\ task_tree.status = "pending"
        /\ \E q \in PathsOf(task_tree) :
              /\ NodeAt(task_tree, q).children = <<>>
              /\ NodeAt(task_tree, q).status # "pending"
              /\ DocBefore(q, found[1])
        /\ \E q \in PendingLeaves(task_tree) : DocBefore(found[1], q)

\* C3: at most one node of the current task tree is in_progress.
C3_AtMostOneInProgress == Cardinality(InProgress(task_tree)) <= 1

\* ======================================================================
\* Orchestrator: tasks and the task queue
\* ======================================================================

\* A key that the task's dict (or its policy dict) does not hold.
Absent == -1

\* A task dict, by the keys the engine reads.  max_attempts and max_depth are
\* the keys of task["policy"]; subtasks is the list of subtask specs; notes is
\* the set of the keys that the plan modifier has added to the dict.
Task(id, type, retry_count, max_attempts, max_depth, subtasks, parent_id) ==
    [id |-> id, type |-> type, status |-> "pending", retry_count |-> retry_count,
     max_attempts |-> max_attempts, max_depth |-> max_depth,
     subtasks |-> subtasks, parent_id |-> parent_id, notes |-> {}]

\* A subtask spec of a parent task: its id and its own max_attempts key.
SubtaskSpec(id, max_attempts) == [id |-> id, max_attempts |-> max_attempts]

\* task.get('policy', {}).get('max_attempts', 3)
DefaultMaxAttempts == 3
MaxAttemptsOf(t) ==
    IF t.max_attempts = Absent THEN DefaultMaxAttempts ELSE t.max_attempts

\* task.get('policy', {}).get('max_depth', 5)
DefaultMaxDepth == 5
MaxDepthOf(t) == IF t.max_depth = Absent THEN DefaultMaxDepth ELSE t.max_depth

\* TaskQueue.add_task: the task is appended, whatever the queue holds.
add_task(queue, t) == Append(queue, t)

NotCompleted(t) == t.status # "completed"

\* The position of the first task of the queue in the set of tasks S, or 0.
FirstIndex(queue, S) ==
    IF \E i \in DOMAIN queue : queue[i] \in S
    THEN CHOOSE i \in DOMAIN queue :
             queue[i] \in S /\ \A j \in 1..(i - 1) : queue[j] \notin S
    ELSE 0

\* TaskQueue.has_pending_tasks
has_pending_tasks(queue) == \E i \in DOMAIN queue : NotCompleted(queue[i])

\* TaskQueue.get_next_task: a copy of the first task that is not completed
\* (the elaboration adds keys the engine does not read), or None.
get_next_task(queue) ==
    LET i == FirstIndex(queue, {queue[k] : k \in {j \in DOMAIN queue :
                                                   NotCompleted(queue[j])}})
    IN  IF i = 0 THEN None ELSE Some(queue[i])

\* TaskQueue.mark_complete: the first entry with that id, then break.
mark_complete(queue, id) ==
    LET i == FirstIndex(queue, {queue[k] : k \in {j \in DOMAIN queue :
                                                   queue[j].id = id}})
    IN  IF i = 0 THEN queue ELSE [queue EXCEPT ![i].status = "completed"]

\* ======================================================================
\* Orchestrator: recovery state (failure counters and checkpoints)
\* ======================================================================

\* The mutable part of the engine that the phases of one task change.
Engine(queue, file, counts, ckpts, calls, history, updates, success) ==
    [queue |-> queue, file |-> file, counts |-> counts, ckpts |-> ckpts,
     calls |-> calls, history |-> history, plan_updates |-> updates,
     modify_success |-> success]

CurrentEngine ==
    Engine(task_queue, current_task_file, failure_counts, checkpoints,
           checkpoint_calls, execution_history, plan_updates, modify_success)

\* Checkpoint names: f"before_task_{id}", f"success_{id}",
\* f"failure_recovery_{id}_{n}", f"failure_escalation_{id}".
CheckpointName(kind, id, n) == <<kind, id, n>>

\* _create_checkpoint keeping the checkpoint a name was first stored with.
create_checkpoint_keep_first(e, name, iteration) ==
    IF name \in DOMAIN e.ckpts
    THEN e
    ELSE [e EXCEPT
            !.ckpts = (name :> [name |-> name,
                                timestamp |-> e.calls + 1,
                                iteration |-> iteration,
                                task_queue |-> e.queue,
                                failure_keys |-> DOMAIN e.counts,
                                checkpoints_created |->
                                    Cardinality(DOMAIN e.ckpts)]) @@ e.ckpts,
            !.calls = e.calls + 1]

\* _create_checkpoint: the checkpoint is stored under its name in the dict
\* recovery_state["checkpoints"].  The timestamp is the order of creation.
\* failure_counts.copy() is a copy of the outer dict only: the snapshot holds
\* the ids present now, and each id's counters are the live ones.
create_checkpoint(e, name, iteration) ==
    LET checkpoint ==
            [name |-> name,
             timestamp |-> e.calls + 1,
             iteration |-> iteration,
             task_queue |-> e.queue,
             failure_keys |-> DOMAIN e.counts,
             checkpoints_created |-> Cardinality(DOMAIN e.ckpts)]
    IN  [e EXCEPT !.ckpts = (name :> checkpoint) @@ e.ckpts,
                  !.calls = e.calls + 1]

Min(a, b) == IF a < b THEN a ELSE b

\* Lines 899-902 alone: the total is counted and the phase is not.
record_failure_total_only(counts, id, phase) ==
    LET old == IF id \in DOMAIN counts
               THEN counts[id]
               ELSE [total |-> 0, by_phase |-> <<>>]
    IN  (id :> [total |-> old.total + 1, by_phase |-> old.by_phase]) @@ counts

\* The counters of a task after one more failure in `phase`.
RecordFailure(counts, id, phase) ==
    LET old == IF id \in DOMAIN counts
               THEN counts[id]
               ELSE [total |-> 0, by_phase |-> <<>>]
        n   == IF phase \in DOMAIN old.by_phase THEN old.by_phase[phase] ELSE 0
    IN  (id :> [total |-> old.total + 1,
                by_phase |-> (phase :> (n + 1)) @@ old.by_phase]) @@ counts

MaxBackoff == 30

\* Line 929 without the cap.
backoff_uncapped(total_failures) == 2 ^ (total_failures - 1)

\* Line 929: the backoff of a retry, in seconds.
backoff_seconds(total_failures) == Min(2 ^ (total_failures - 1), MaxBackoff)

\* _handle_task_failure deciding with <= instead of <.
handle_task_failure_late(e, t, phase, iteration) ==
    LET counts == RecordFailure(e.counts, t.id, phase)
        total_failures == counts[t.id].total
        max_attempts == MaxAttemptsOf(t)
        e1 == [e EXCEPT !.counts = counts]
    IN  IF total_failures <= max_attempts
        THEN [engine |-> create_checkpoint(e1,
                            CheckpointName("failure_recovery", t.id, total_failures),
                            iteration),
              recovery |-> [task_id |-> t.id, phase |-> phase,
                            failure_count |-> total_failures,
                            max_attempts |-> max_attempts,
                            recovery_action |-> "retry_with_backoff",
                            final_status |-> "retry_needed",
                            backoff_seconds |->
                                Some(backoff_seconds(total_failures))]]
        ELSE [engine |-> create_checkpoint(e1,
                            CheckpointName("failure_escalation", t.id, 0),
                            iteration),
              recovery |-> [task_id |-> t.id, phase |-> phase,
                            failure_count |-> total_failures,
                            max_attempts |-> max_attempts,
                            recovery_action |-> "escalate",
                            final_status |-> "max_attempts_exceeded",
                            backoff_seconds |-> None]]

\* _handle_task_failure: count the failure, then retry with backoff below
\* max_attempts and escalate from max_attempts on; one checkpoint either way.
handle_task_failure(e, t, phase, iteration) ==
    LET counts == RecordFailure(e.counts, t.id, phase)
        total_failures == counts[t.id].total
        max_attempts == MaxAttemptsOf(t)
        e1 == [e EXCEPT !.counts = counts]
    IN  IF total_failures < max_attempts
        THEN [engine |-> create_checkpoint(e1,
                            CheckpointName("failure_recovery", t.id, total_failures),
                            iteration),
              recovery |-> [task_id |-> t.id, phase |-> phase,
                            failure_count |-> total_failures,
                            max_attempts |-> max_attempts,
                            recovery_action |-> "retry_with_backoff",
                            final_status |-> "retry_needed",
                            backoff_seconds |->
                                Some(backoff_seconds(total_failures))]]
        ELSE [engine |-> create_checkpoint(e1,
                            CheckpointName("failure_escalation", t.id, 0),
                            iteration),
              recovery |-> [task_id |-> t.id, phase |-> phase,
                            failure_count |-> total_failures,
                            max_attempts |-> max_attempts,
                            recovery_action |-> "escalate",
                            final_status |-> "max_attempts_exceeded",
                            backoff_seconds |-> None]]

\* ======================================================================
\* Orchestrator: the plan modifier
\* ======================================================================

\* One line of a decision's action_details, stripped: the prefix among
\* '1.' .. '5.' and '-' it starts with ("" when none), whether it holds a ':',
\* the text after the first ':' and the text after its first two characters,
\* both stripped.
Line(marker, colon, after_colon, after_cut) ==
    [marker |-> marker, colon |-> colon, after_colon |-> after_colon,
     after_cut |-> after_cut]

\* PlanModifier._parse_subtasks
RECURSIVE parse_subtasks(_)
parse_subtasks(lines) ==
    IF lines = <<>> THEN <<>>
    ELSE LET line == Head(lines)
             subtask_desc == IF line.colon THEN line.after_colon ELSE line.after_cut
         IN  IF line.marker # "" /\ subtask_desc # ""
             THEN <<subtask_desc>> \o parse_subtasks(Tail(lines))
             ELSE parse_subtasks(Tail(lines))

\* _generate_action_details("DECOMPOSE"): the text of lines 1912-1920.
DecomposeDetails ==
    << Line("", TRUE, "", "BTASKS:"),
       Line("1.", FALSE, "", "Analyze requirements and create detailed specification"),
       Line("2.", FALSE, "", "Implement core functionality"),
       Line("3.", FALSE, "", "Add error handling and validation"),
       Line("4.", FALSE, "", "Write tests and documentation"),
       Line("", FALSE, "", ""),
       Line("", TRUE, "", "CHESTRATE:"),
       Line("-", FALSE, "", "Execute subtasks in sequence"),
       Line("-", FALSE, "", "Each subtask must pass before proceeding") >>

\* The other decisions' action_details hold no line that is parsed.
action_details(decision) ==
    IF decision = "DECOMPOSE" THEN DecomposeDetails ELSE <<>>

\* The subtasks _handle_decompose adds for the descriptions 1..n.
RECURSIVE AddSubtasks(_, _, _, _)
AddSubtasks(queue, t, n, i) ==
    IF i > n THEN queue
    ELSE AddSubtasks(
             add_task(queue, Task(t.id \o "_sub_" \o ToString(i), "atomic", 0,
                                  Absent, Absent, <<>>, t.id)),
             t, n, i + 1)

RetryLimit == 3

\* What a handler of the plan modifier gives back: the stored state, its
\* return value, and the dict current_task as the handler leaves it.
Modified(e, success, t) == [engine |-> e, success |-> success, task |-> t]

\* The dict with a status and more keys set on it.
Annotated(t, status, keys) ==
    [t EXCEPT !.status = status, !.notes = @ \cup keys]

\* _handle_decompose that does not test whether subtasks were found.
handle_decompose_unguarded(e, details, t) ==
    LET subtasks == parse_subtasks(details)
    IN  Modified([e EXCEPT !.queue = AddSubtasks(e.queue, t, Len(subtasks), 1)],
                 TRUE, Annotated(t, "decomposed", {"subtask_count"}))

\* PlanModifier._handle_decompose
handle_decompose(e, details, t) ==
    LET subtasks == parse_subtasks(details)
    IN  IF subtasks = <<>>
        THEN Modified(e, FALSE, t)
        ELSE Modified([e EXCEPT !.queue = AddSubtasks(e.queue, t, Len(subtasks), 1)],
                      TRUE, Annotated(t, "decomposed", {"subtask_count"}))

\* PlanModifier.modify_plan on the task read from current_task.json, for a
\* decision and its action_details.  The status and notes that _handle_refine,
\* _handle_escalate and _handle_decompose set are set on the dict they are
\* given, which is not written to the queue; _handle_retry appends the dict
\* it has changed.
modify_plan(e, decision, details, t) ==
    CASE decision = "COMPLETE" ->
            Modified([e EXCEPT !.queue = mark_complete(e.queue, t.id)], TRUE, t)
      [] decision = "RETRY" ->
            LET retry_count == t.retry_count + 1
                retried == [t EXCEPT !.retry_count = retry_count,
                                     !.notes = @ \cup {"last_retry_reason"}]
            IN  IF retry_count <= RetryLimit
                THEN Modified([e EXCEPT !.queue = add_task(e.queue, retried)],
                              TRUE, retried)
                ELSE Modified(e, FALSE, retried)
      [] decision = "DECOMPOSE" -> handle_decompose(e, details, t)
      [] decision = "REFINE" ->
            Modified(e, TRUE,
                     Annotated(t, "pending_refinement",
                               {"needs_refinement", "refinement_notes"}))
      [] decision = "ESCALATE" ->
            Modified(e, TRUE,
                     Annotated(t, "escalated",
                               {"escalation_reason", "escalation_details"}))
      [] OTHER -> Modified(e, FALSE, t)

\* _invoke_navigator_agent: the decision for an assessment and a retry count.
navigator_decision(overall_status, retry_count) ==
    IF overall_status = "pass" THEN "COMPLETE"
    ELSE IF overall_status = "fail" /\ retry_count >= 3 THEN "DECOMPOSE"
    ELSE IF overall_status = "fail" /\ retry_count > 0 THEN "REFINE"
    ELSE IF overall_status = "fail" THEN "RETRY"
    ELSE IF overall_status = "warning" THEN "COMPLETE"
    ELSE "RETRY"

\* adapt_plan: without a current task the decision is ESCALATE and the plan is
\* not touched; otherwise the navigator decides (ESCALATE when it cannot be
\* invoked) and the plan modifier applies the decision, its result only logged.
adapt_plan(e, overall_status, navigator_ok) ==
    IF e.file = None
    THEN [engine |-> e, decision |-> "ESCALATE"]
    ELSE LET t == e.file[1]
             decision == IF navigator_ok
                         THEN navigator_decision(overall_status, t.retry_count)
                         ELSE "ESCALATE"
             m == modify_plan(e, decision, action_details(decision), t)
         IN  [engine |-> [m.engine EXCEPT !.plan_updates = Some(decision),
                                          !.modify_success = Some(m.success)],
              decision |-> decision]

\* ======================================================================
\* Orchestrator: execute_task
\* ======================================================================

\* An execution result, by the keys the engine reads; final_status "none"
\* stands for a result without that key.
Result(task_id, execution_type, status, final_status, error, recovery, results) ==
    [task_id |-> task_id, execution_type |-> execution_type, status |-> status,
     final_status |-> final_status, error |-> error,
     recovery_info |-> recovery, subtask_results |-> results]

\* _record_execution
record_execution(e, result) == [e EXCEPT !.history = Append(e.history, result)]

\* What the collaborators of one Act -> Assess -> Adapt cycle do.  act: the
\* executor returns a result with that status, or _execute_with_timeout reports
\* timeout or error.  assess: the observers' overall_status, or timeout/error.
\* adapt: adapt_plan returns ("decided", or "no_navigator" when the navigator
\* cannot be invoked), or timeout/error.  "-" marks a phase that is not run.
PhaseFailure == {"timeout", "error"}
OverallStatus == {"pass", "warning", "fail", "unknown"}
Outcomes ==
    { [act |-> a, assess |-> "-", adapt |-> "-"] : a \in PhaseFailure }
    \cup { [act |-> a, assess |-> s, adapt |-> "-"] :
             a \in {"success", "failure"}, s \in PhaseFailure }
    \cup { [act |-> a, assess |-> s, adapt |-> d] :
             a \in {"success", "failure"}, s \in OverallStatus,
             d \in PhaseFailure \cup {"decided", "no_navigator"} }

PhaseFailed(o) ==
    o.act \in PhaseFailure \/ o.assess \in PhaseFailure \/ o.adapt \in PhaseFailure

\* The exception raised at lines 1378-1381, 1408-1411 and 1421-1424.
PhaseError(o) ==
    LET Message(phase, how) ==
            phase \o (IF how = "timeout" THEN " phase timed out" ELSE " phase error")
    IN  IF o.act \in PhaseFailure THEN Message("ACT", o.act)
        ELSE IF o.assess \in PhaseFailure THEN Message("ASSESS", o.assess)
        ELSE Message("ADAPT", o.adapt)

\* _execute_atomic_task going on to Adapt after a phase has failed.
execute_atomic_task_continue(e, t, depth, o, iteration, writes) ==
    LET e1 == create_checkpoint(e, CheckpointName("before_task", t.id, 0), iteration)
        e2 == IF writes /\ o.act # "error"
              THEN [e1 EXCEPT !.file = Some(t)]
              ELSE e1
    IN  IF PhaseFailed(o)
        THEN LET h == handle_task_failure(adapt_plan(e2, "unknown", TRUE).engine, t,
                                          "execution", iteration)
                 failed_result ==
                     Result(t.id, "atomic", "failure", h.recovery.final_status,
                            PhaseError(o), Some(h.recovery), <<>>)
             IN  [engine |-> record_execution(h.engine, failed_result),
                  result |-> failed_result]
        ELSE LET a == adapt_plan(e2, o.assess, o.adapt = "decided")
                 final_status ==
                     IF a.decision = "COMPLETE" THEN "completed"
                     ELSE IF a.decision = "RETRY" THEN "retry_needed"
                     ELSE a.decision
                 e3 == IF a.decision = "COMPLETE"
                       THEN create_checkpoint(a.engine,
                                CheckpointName("success", t.id, 0), iteration)
                       ELSE a.engine
                 enhanced_result ==
                     Result(t.id, "atomic", o.act, final_status, "", None, <<>>)
             IN  [engine |-> record_execution(e3, enhanced_result),
                  result |-> enhanced_result]

\* _execute_atomic_task: the checkpoint before, the three phases, and either
\* the decision's final_status (with a success checkpoint on COMPLETE) or the
\* failure handler's; the result is recorded in both cases.  writes: the
\* executor in use writes current_task.json before it runs the task.
execute_atomic_task(e, t, depth, o, iteration, writes) ==
    LET e1 == create_checkpoint(e, CheckpointName("before_task", t.id, 0), iteration)
        e2 == IF writes /\ o.act # "error"
              THEN [e1 EXCEPT !.file = Some(t)]
              ELSE e1
    IN  IF PhaseFailed(o)
        THEN LET h == handle_task_failure(e2, t, "execution", iteration)
                 failed_result ==
                     Result(t.id, "atomic", "failure", h.recovery.final_status,
                            PhaseError(o), Some(h.recovery), <<>>)
             IN  [engine |-> record_execution(h.engine, failed_result),
                  result |-> failed_result]
        ELSE LET a == adapt_plan(e2, o.assess, o.adapt = "decided")
                 final_status ==
                     IF a.decision = "COMPLETE" THEN "completed"
                     ELSE IF a.decision = "RETRY" THEN "retry_needed"
                     ELSE a.decision
                 e3 == IF a.decision = "COMPLETE"
                       THEN create_checkpoint(a.engine,
                                CheckpointName("success", t.id, 0), iteration)
                       ELSE a.engine
                 enhanced_result ==
                     Result(t.id, "atomic", o.act, final_status, "", None, <<>>)
             IN  [engine |-> record_execution(e3, enhanced_result),
                  result |-> enhanced_result]

\* execute_task sends a task to _execute_parent_task when it has subtasks and
\* its type is 'parent'.
IsParent(t) == t.subtasks # <<>> /\ t.type = "parent"

\* execute_task without the depth check.
execute_task_unchecked(e, t, depth, o, iteration, writes) ==
    execute_atomic_task(e, t, depth, o, iteration, writes)

\* execute_task for a task that is not run as a parent: the depth check, then
\* _execute_atomic_task.
execute_task(e, t, depth, o, iteration, writes) ==
    IF depth > MaxDepthOf(t)
    THEN [engine |-> e,
          result |-> Result(t.id, "", "failure", "none", "Maximum depth exceeded",
                            None, <<>>)]
    ELSE execute_atomic_task(e, t, depth, o, iteration, writes)

\* A subtask's max_attempts when its spec names none.
SubtaskMaxAttempts == 2

\* _prepare_subtask: the subtask keeps its spec's id and max_attempts, takes
\* the parent's max_depth, and carries no subtasks of its own.
prepare_subtask(subtask_spec, parent_task) ==
    Task(subtask_spec.id, "atomic", 0,
         IF subtask_spec.max_attempts = Absent
         THEN SubtaskMaxAttempts ELSE subtask_spec.max_attempts,
         MaxDepthOf(parent_task), <<>>, parent_task.id)

\* The loop of line 1510 that stops at the first failed subtask.
subtasks_done_or_failed(t, results) ==
    \/ Len(results) = Len(t.subtasks)
    \/ \E i \in DOMAIN results : results[i].status = "failure"

\* The loop of line 1510 has run every subtask spec of the parent.
subtasks_done(t, results) == Len(results) = Len(t.subtasks)

\* Line 1523: a subtask result that makes the parent fail.
SubtaskFailed(r) == r.final_status # "completed" /\ r.status # "success"

\* Lines 1527-1543: the parent's result once every subtask has run.
parent_result(t, results) ==
    IF \A i \in DOMAIN results : ~SubtaskFailed(results[i])
    THEN Result(t.id, "parent", "success", "completed", "", None, results)
    ELSE Result(t.id, "parent", "partial_failure", "subtask_failures", "", None,
                results)

\* ======================================================================
\* Orchestrator: run_main_loop
\* ======================================================================

\* max_iterations of the run.
MaxIterations == 3

\* The tasks a run is loaded with: atomic tasks with and without a policy and
\* a retry_count of their own, and tasks with two or three subtask specs.
AtomicTasks(id) ==
    { Task(id, "atomic", 0, ma, Absent, <<>>, "") : ma \in {Absent, 1, 2, 3} }
    \cup { Task(id, "atomic", rc, Absent, Absent, <<>>, "") : rc \in {1, 3} }

ParentTasks(id) ==
    { Task(id, ty, 0, Absent, md,
           <<SubtaskSpec(id \o "_c1", Absent), SubtaskSpec(id \o "_c2", 1)>>, "") :
        ty \in {"parent", "atomic"}, md \in {Absent, 0} }

WideParentTask(id) ==
    Task(id, "parent", 0, Absent, Absent,
         <<SubtaskSpec(id \o "_c1", Absent), SubtaskSpec(id \o "_c2", Absent),
           SubtaskSpec(id \o "_c3", Absent)>>, "")

\* The task files of the runs explored. The three-subtask parent is run with
\* the executor that leaves current_task.json alone, the two-task files start
\* with an atomic task.
InitialQueues(writes) ==
    { <<t>> : t \in AtomicTasks("a") \cup ParentTasks("a") }
    \cup { <<Task("a", "atomic", 0, ma, Absent, <<>>, ""),
             Task("b", "atomic", 0, Absent, Absent, <<>>, "")>> : ma \in {Absent, 1} }
    \cup (IF writes THEN {} ELSE { <<WideParentTask("a")>> })

\* The TEF Light variables while the orchestrator runs.
LightIdle ==
    /\ task_tree = Leaf("r", "pending")
    /\ task = None
    /\ task_in_tree = FALSE
    /\ lpc = "idle"
    /\ task_plan = PlanFile("node", Leaf("r", "pending"))
    /\ project_files = init_project(task_plan)
    /\ original_user_intent = None
    /\ audit_log = <<>>

\* TEFOrchestrator.__init__: an empty recovery state and the checkpoint
\* "system_initialization"; then the task file is loaded into the queue.
Init ==
    /\ LightIdle
    /\ UnitIdle
    /\ executor_writes_task \in BOOLEAN
    /\ task_queue \in InitialQueues(executor_writes_task)
    /\ current_task_file = None
    /\ failure_counts = <<>>
    /\ LET e == create_checkpoint(
                    Engine(<<>>, None, <<>>, <<>>, 0, <<>>, None, None),
                    CheckpointName("system_initialization", "", 0), 0)
       IN  checkpoints = e.ckpts /\ checkpoint_calls = e.calls
    /\ execution_history = <<>>
    /\ plan_updates = None
    /\ modify_success = None
    /\ current_iteration = 0
    /\ current_task = None
    /\ execution_result = None
    /\ subtask_results = <<>>
    /\ pc = "loop"

SetEngine(e) ==
    /\ task_queue' = e.queue
    /\ current_task_file' = e.file
    /\ failure_counts' = e.counts
    /\ checkpoints' = e.ckpts
    /\ checkpoint_calls' = e.calls
    /\ execution_history' = e.history
    /\ plan_updates' = e.plan_updates
    /\ modify_success' = e.modify_success

engineVars == <<task_queue, current_task_file, failure_counts, checkpoints,
                checkpoint_calls, execution_history, plan_updates, modify_success>>

\* The loop condition with <= for <.
loop_condition_inclusive(iteration) == iteration <= MaxIterations

\* Line 1948: while self.current_iteration < self.max_iterations
loop_condition(iteration) == iteration < MaxIterations

\* Lines 1948-1963: the next iteration takes the first task not completed.
LoopPick ==
    /\ pc = "loop"
    /\ loop_condition(current_iteration)
    /\ has_pending_tasks(task_queue)
    /\ current_iteration' = current_iteration + 1
    /\ current_task' = get_next_task(task_queue)
    /\ execution_result' = None
    /\ modify_success' = None
    /\ pc' = "execute"
    /\ UNCHANGED <<task_queue, current_task_file, failure_counts, checkpoints,
                   checkpoint_calls, execution_history, plan_updates,
                   subtask_results, executor_writes_task>>
    /\ UNCHANGED <<lightVars, unitVars>>

\* Lines 1948-1955 and 1993-1996: the loop ends at max_iterations, or in the
\* iteration that finds every task completed.
LoopExit ==
    /\ pc = "loop"
    /\ \/ /\ ~loop_condition(current_iteration)
          /\ UNCHANGED current_iteration
       \/ /\ loop_condition(current_iteration)
          /\ ~has_pending_tasks(task_queue)
          /\ current_iteration' = current_iteration + 1
    /\ pc' = "done"
    /\ UNCHANGED <<engineVars, current_task, execution_result, subtask_results,
                   executor_writes_task>>
    /\ UNCHANGED <<lightVars, unitVars>>

\* Line 1966 for a task that is not run as a parent.
ExecuteAtomic ==
    /\ pc = "execute"
    /\ ~IsParent(current_task[1])
    /\ \E o \in Outcomes :
          LET x == execute_task(CurrentEngine, current_task[1], 0, o,
                                current_iteration, executor_writes_task)
          IN  /\ SetEngine(x.engine)
              /\ execution_result' = Some(x.result)
    /\ pc' = "post"
    /\ UNCHANGED <<current_iteration, current_task, subtask_results,
                   executor_writes_task>>
    /\ UNCHANGED <<lightVars, unitVars>>

\* Line 1966 for a parent (its depth check passed): lines 1486-1509.
ParentStart ==
    /\ pc = "execute"
    /\ IsParent(current_task[1])
    /\ 0 <= MaxDepthOf(current_task[1])
    /\ subtask_results' = <<>>
    /\ pc' = "children"
    /\ UNCHANGED <<engineVars, current_iteration, current_task, execution_result,
                   executor_writes_task>>
    /\ UNCHANGED <<lightVars, unitVars>>

\* Lines 1510-1525: the next subtask is prepared and executed one level down.
SubtaskStep ==
    /\ pc = "children"
    /\ ~subtasks_done(current_task[1], subtask_results)
    /\ LET parent == current_task[1]
           subtask == prepare_subtask(parent.subtasks[Len(subtask_results) + 1], parent)
       IN  \E o \in Outcomes :
              LET x == execute_task(CurrentEngine, subtask, 1, o,
                                    current_iteration, executor_writes_task)
              IN  /\ SetEngine(x.engine)
                  /\ subtask_results' = Append(subtask_results, x.result)
    /\ UNCHANGED <<current_iteration, current_task, execution_result,
                   executor_writes_task, pc>>
    /\ UNCHANGED <<lightVars, unitVars>>

\* Lines 1527-1543: the parent's result, recorded in the history.
ParentFinish ==
    /\ pc = "children"
    /\ subtasks_done(current_task[1], subtask_results)
    /\ LET r == parent_result(current_task[1], subtask_results)
       IN  /\ SetEngine(record_execution(CurrentEngine, r))
           /\ execution_result' = Some(r)
    /\ pc' = "post"
    /\ UNCHANGED <<current_iteration, current_task, subtask_results,
                   executor_writes_task>>
    /\ UNCHANGED <<lightVars, unitVars>>

\* Lines 1968-1989: what the loop does with the task for its final_status.
after_execution(queue, t, final_status) ==
    IF final_status = "completed"
    THEN mark_complete(queue, t.id)
    ELSE IF final_status = "retry_needed"
    THEN LET retry_count == t.retry_count + 1
         IN  IF retry_count <= MaxAttemptsOf(t)
             THEN add_task(queue, [t EXCEPT !.retry_count = retry_count])
             ELSE mark_complete(queue, t.id)
    ELSE mark_complete(queue, t.id)

LoopPost ==
    /\ pc = "post"
    /\ task_queue' = after_execution(task_queue, current_task[1],
                                     execution_result[1].final_status)
    /\ pc' = "loop"
    /\ UNCHANGED <<current_task_file, failure_counts, checkpoints, checkpoint_calls,
                   execution_history, plan_updates, modify_success,
                   current_iteration, current_task, execution_result,
                   subtask_results, executor_writes_task>>
    /\ UNCHANGED <<lightVars, unitVars>>

Next ==
    \/ LoopPick
    \/ LoopExit
    \/ ExecuteAtomic
    \/ ParentStart
    \/ SubtaskStep
    \/ ParentFinish
    \/ LoopPost

Spec == Init /\ [][Next]_vars

\* ======================================================================
\* Orchestrator: properties
\* ======================================================================

\* The positions in the history of the handled failures of a task.
FailuresOf(id) ==
    { i \in DOMAIN execution_history :
        /\ execution_history[i].task_id = id
        /\ execution_history[i].recovery_info # None }

ActErrors == {"ACT phase timed out", "ACT phase error"}

\* Every execution of the task recorded so far failed in its Act phase.
ActAlwaysFails(id) ==
    \A i \in DOMAIN execution_history :
        execution_history[i].task_id = id =>
            execution_history[i].error \in ActErrors

Escalations(id) ==
    { i \in FailuresOf(id) :
        execution_history[i].recovery_info[1].recovery_action = "escalate" }

\* C1: for a task whose Act phase fails on every attempt, no stored entry of
\* the task has a retry_count above its max_attempts, the task is escalated
\* once only, at the failure that brings its failure total to max_attempts,
\* and no execution of the task follows that escalation.
C1_EscalatedOnceThenNeverExecuted ==
    \A id \in {execution_history[i].task_id : i \in DOMAIN execution_history} :
        ActAlwaysFails(id) =>
            /\ \A k \in DOMAIN task_queue :
                   task_queue[k].id = id =>
                       task_queue[k].retry_count <= MaxAttemptsOf(task_queue[k])
            /\ Cardinality(Escalations(id)) <= 1
            /\ \A i \in Escalations(id) :
                   LET info == execution_history[i].recovery_info[1]
                   IN  /\ info.failure_count = info.max_attempts
                       /\ \A j \in DOMAIN execution_history :
                              j > i => execution_history[j].task_id # id

\* C4: a parent's result has status success only if every child's result has
\* final_status completed, and is partial_failure as soon as one child's
\* final_status is something else.
C4_ParentSuccessNeedsAllCompleted ==
    \A i \in DOMAIN execution_history :
        LET r == execution_history[i]
            all_completed ==
                \A k \in DOMAIN r.subtask_results :
                    r.subtask_results[k].final_status = "completed"
        IN  r.execution_type = "parent" =>
                /\ r.status = "success" => all_completed
                /\ ~all_completed => r.status = "partial_failure"

\* A result that _record_execution stored (the depth check's result is not).
Recorded(r) == r.execution_type # ""

C6_FailedModificationLeavesTaskUnresolved ==
    (pc = "loop" /\ current_task # None /\ modify_success = Some(FALSE)) =>
        \E k \in DOMAIN task_queue :
            /\ task_queue[k].id = current_task[1].id
            /\ NotCompleted(task_queue[k])

\* C7: no stored task has a retry_count above its policy's max_attempts; a
\* Retry decision on a task below max_attempts stores the task again, pending,
\* with its retry_count one higher, and a Retry decision on a task that has
\* used up max_attempts leaves the task escalated.
C7_RetryWithinMaxAttempts ==
    /\ \A k \in DOMAIN task_queue :
           task_queue[k].retry_count <= MaxAttemptsOf(task_queue[k])
    /\ (/\ pc = "post"
        /\ ~IsParent(current_task[1])
        /\ modify_success # None
        /\ plan_updates = Some("RETRY")) =>
           LET t == current_task[1]
           IN  IF t.retry_count < MaxAttemptsOf(t)
               THEN \E k \in DOMAIN task_queue :
                        /\ task_queue[k].id = t.id
                        /\ task_queue[k].retry_count = t.retry_count + 1
                        /\ task_queue[k].status = "pending"
               ELSE \E k \in DOMAIN task_queue :
                        /\ task_queue[k].id = t.id
                        /\ task_queue[k].status = "escalated"

\* C8: a stored checkpoint is never changed or removed by a later step, and
\* the store holds as many checkpoints as _create_checkpoint was called.
C8_CheckpointsAppendOnly ==
    [][ /\ \A name \in DOMAIN checkpoints :
               /\ name \in DOMAIN checkpoints'
               /\ checkpoints'[name] = checkpoints[name]
        /\ Cardinality(DOMAIN checkpoints') = checkpoint_calls' ]_vars

CheckpointsOfKind(kinds) == { name \in DOMAIN checkpoints : name[1] \in kinds }

\* C9: a run of one task with max_attempts 3 whose Act fails every time: after
\* its third iteration the first two failures were answered with backoffs of
\* 1 and 2 seconds and the third with an escalation, the store holds three
\* checkpoints taken before an attempt, three taken after one, one of them
\* the escalation's, and the task's stored status is escalated.
C9_AlwaysFailingTaskEndToEnd ==
    (/\ pc = "loop"
     /\ Len(execution_history) = 3
     /\ \A i \in 1..3 :
            /\ execution_history[i].task_id = task_queue[1].id
            /\ execution_history[i].error \in ActErrors
            /\ execution_history[i].recovery_info[1].max_attempts = 3) =>
        /\ execution_history[1].recovery_info[1].backoff_seconds = Some(1)
        /\ execution_history[2].recovery_info[1].backoff_seconds = Some(2)
        /\ execution_history[3].recovery_info[1].recovery_action = "escalate"
        /\ Cardinality(CheckpointsOfKind({"before_task"})) = 3
        /\ Cardinality(CheckpointsOfKind({"failure_recovery", "failure_escalation",
                                          "success"})) = 3
        /\ Cardinality(CheckpointsOfKind({"failure_escalation"})) = 1
        /\ task_queue[1].status = "escalated"

\* C10: _handle_task_failure adds one to the task's failure total, answers
\* retry_with_backoff while the new total is below max_attempts and escalate
\* from max_attempts on, and takes max_attempts from the task's policy, or 3
\* when the policy names none.
C10_FailureHandlerDecision ==
    /\ \A id \in DOMAIN failure_counts :
           failure_counts[id].total = Cardinality(FailuresOf(id))
    /\ \A i \in DOMAIN execution_history :
           LET r == execution_history[i]
           IN  r.recovery_info # None =>
                   LET info == r.recovery_info[1]
                   IN  /\ info.failure_count =
                              Cardinality({j \in FailuresOf(r.task_id) : j <= i})
                       /\ info.recovery_action =
                              IF info.failure_count < info.max_attempts
                              THEN "retry_with_backoff" ELSE "escalate"
    /\ (/\ pc = "post"
        /\ ~IsParent(current_task[1])
        /\ execution_result[1].recovery_info # None) =>
           execution_result[1].recovery_info[1].max_attempts =
               IF current_task[1].max_attempts = Absent
               THEN 3 ELSE current_task[1].max_attempts

\* A task without a policy has failed a third time, after two retries, and
\* the handler answered escalate.
C10_Witness ==
    /\ pc = "post"
    /\ ~IsParent(current_task[1])
    /\ current_task[1].max_attempts = Absent
    /\ execution_result[1].recovery_info # None
    /\ execution_result[1].recovery_info[1].failure_count = 3
    /\ execution_result[1].recovery_info[1].recovery_action = "escalate"
    /\ \E i \in FailuresOf(current_task[1].id) :
           execution_history[i].recovery_info[1].recovery_action = "retry_with_backoff"

\* ======================================================================
\* Orchestrator: _handle_task_failure on its own
\* ======================================================================

\* Most failures handled for the task.
MaxFailures == 8

\* The task's policy: none, a small max_attempts, and one no failure reaches.
RecoveryAttempts == {Absent, 2, MaxFailures + 1}

RecoveryPhases == {"execution", "assessment"}

InitRecovery ==
    /\ LightIdle
    /\ UnitIdle
    /\ task_queue \in { <<Task("a", "atomic", 0, ma, Absent, <<>>, "")>> :
                          ma \in RecoveryAttempts }
    /\ executor_writes_task = FALSE
    /\ current_task_file = None
    /\ failure_counts = <<>>
    /\ LET e == create_checkpoint(
                    Engine(<<>>, None, <<>>, <<>>, 0, <<>>, None, None),
                    CheckpointName("system_initialization", "", 0), 0)
       IN  checkpoints = e.ckpts /\ checkpoint_calls = e.calls
    /\ execution_history = <<>>
    /\ plan_updates = None
    /\ modify_success = None
    /\ current_iteration = 0
    /\ current_task = None
    /\ execution_result = None
    /\ subtask_results = <<>>
    /\ pc = "recovery"

\* One more failure of the task is handled; the result is kept as the failed
\* result of lines 1462-1477 keeps it.
HandleFailure ==
    /\ pc = "recovery"
    /\ LET t == task_queue[1]
       IN  /\ IF t.id \in DOMAIN failure_counts
              THEN failure_counts[t.id].total < MaxFailures
              ELSE TRUE
           /\ \E phase \in RecoveryPhases :
                 LET h == handle_task_failure(CurrentEngine, t, phase,
                                              current_iteration)
                 IN  /\ SetEngine(h.engine)
                     /\ execution_result' =
                            Some(Result(t.id, "atomic", "failure",
                                        h.recovery.final_status, "",
                                        Some(h.recovery), <<>>))
    /\ UNCHANGED <<current_iteration, current_task, subtask_results,
                   executor_writes_task, pc>>
    /\ UNCHANGED <<lightVars, unitVars>>

NextRecovery == HandleFailure

SpecRecovery == InitRecovery /\ [][NextRecovery]_vars

\* C11: the backoff that comes with a retry is 1, 2, 4, 8, 16, 30 seconds for
\* the failures 1 to 6 of a task and 30 seconds for every later one.
C11_BackoffSequence ==
    execution_result # None =>
        LET info == execution_result[1].recovery_info[1]
            n == info.failure_count
        IN  info.recovery_action = "retry_with_backoff" =>
                info.backoff_seconds =
                    Some(IF n <= 6 THEN <<1, 2, 4, 8, 16, 30>>[n] ELSE 30)

\* The sixth failure of a task was answered with a retry after 30 seconds.
C11_Witness ==
    /\ execution_result # None
    /\ execution_result[1].recovery_info[1].failure_count = 6
    /\ execution_result[1].recovery_info[1].recovery_action = "retry_with_backoff"
    /\ execution_result[1].recovery_info[1].backoff_seconds = Some(30)

\* ======================================================================
\* Orchestrator: properties of execute_task
\* ======================================================================

\* C12: the Act phase runs on tasks without subtasks only: a task executed
\* as an atomic task carries no subtasks, whatever its type field says.
C12_ActOnlyOnAtomicTasks ==
    (/\ pc = "post"
     /\ execution_result # None
     /\ execution_result[1].execution_type = "atomic") =>
        current_task[1].subtasks = <<>>

\* The checkpoint the handler took for a failure it answered with info.
FailureCheckpoint(info) ==
    IF info.recovery_action = "retry_with_backoff"
    THEN CheckpointName("failure_recovery", info.task_id, info.failure_count)
    ELSE CheckpointName("failure_escalation", info.task_id, 0)

\* C13: when a phase of an atomic task times out or raises, the attempt ends
\* there: no plan modification follows, the failure handler runs once (one
\* more failure counted, its checkpoint the only one after the attempt's
\* before_task checkpoint), and the result is a failure with final_status
\* retry_needed or max_attempts_exceeded.
C13_PhaseFailureEndsAttempt ==
    (/\ pc = "post"
     /\ ~IsParent(current_task[1])
     /\ execution_result[1].error \in
            {"ACT phase timed out", "ACT phase error", "ASSESS phase timed out",
             "ASSESS phase error", "ADAPT phase timed out", "ADAPT phase error"}) =>
        LET r == execution_result[1]
            id == current_task[1].id
        IN  /\ r.status = "failure"
            /\ r.final_status \in {"retry_needed", "max_attempts_exceeded"}
            /\ r.recovery_info # None
            /\ modify_success = None
            /\ failure_counts[id].total = Cardinality(FailuresOf(id))
            /\ r.recovery_info[1].failure_count = failure_counts[id].total
            /\ checkpoints[CheckpointName("before_task", id, 0)].timestamp
                   = checkpoint_calls - 1
            /\ checkpoints[FailureCheckpoint(r.recovery_info[1])].timestamp
                   = checkpoint_calls
            /\ execution_history[Len(execution_history)] = r

\* The Assess phase of a task failed after its Act phase had returned and
\* written current_task.json, so that Adapt had a task to decide on.
C13_Witness ==
    /\ pc = "post"
    /\ ~IsParent(current_task[1])
    /\ execution_result[1].error = "ASSESS phase timed out"
    /\ current_task_file = Some(current_task[1])
    /\ execution_result[1].final_status = "retry_needed"

\* ======================================================================
\* Orchestrator: _execute_with_timeout on its own
\* ======================================================================

\* A call of _execute_with_timeout: what func does when it is left to run
\* (returns a value, raises an exception with a message, raises a
\* TimeoutError of its own with a message), how many seconds it takes to get
\* there, the timeout_seconds argument, and whether the platform has SIGALRM.
PhaseCalls ==
    [behaviour : {"returns", "raises", "raises_timeout_error"},
     value : {"v1", "v2"},
     duration : {1, 45, 90},
     timeout_seconds : {30, 60},
     sigalrm : BOOLEAN]

\* Lines 979-981 and 975-976: the alarm goes off while func still runs.
DeadlineFired(call) == call.sigalrm /\ call.duration > call.timeout_seconds

\* _execute_with_timeout: the record returned.
execute_with_timeout(call) ==
    IF DeadlineFired(call)
    THEN [status |-> "timeout",
          result |-> None,
          error |-> Some("Operation timed out after "
                         \o ToString(call.timeout_seconds) \o " seconds"),
          timeout_used |-> call.timeout_seconds]
    ELSE CASE call.behaviour = "returns" ->
                [status |-> "success", result |-> Some(call.value),
                 error |-> None, timeout_used |-> call.timeout_seconds]
           [] call.behaviour = "raises_timeout_error" ->
                [status |-> "timeout", result |-> None,
                 error |-> Some(call.value), timeout_used |-> call.timeout_seconds]
           [] call.behaviour = "raises" ->
                [status |-> "error", result |-> None,
                 error |-> Some(call.value), timeout_used |-> call.timeout_seconds]

InitTimeout ==
    /\ LightIdle
    /\ OrchIdle
    /\ UnitIdle

\* _execute_with_timeout returns.
PhaseReturn ==
    /\ phase_call # None
    /\ phase_record = None
    /\ phase_record' = Some(execute_with_timeout(phase_call[1]))
    /\ UNCHANGED <<phase_call, next_observer, observations, assessment,
                   decision_payload, task_dict,
                   hubVars>>
    /\ UNCHANGED <<lightVars, orchVars>>

\* A phase is handed to _execute_with_timeout.
PhaseInvoke ==
    /\ phase_call = None \/ phase_record # None
    /\ phase_call' \in { Some(c) : c \in PhaseCalls }
    /\ phase_record' = None
    /\ UNCHANGED <<next_observer, observations, assessment, decision_payload,
                   task_dict,
                   hubVars>>
    /\ UNCHANGED <<lightVars, orchVars>>

NextTimeout == PhaseReturn \/ PhaseInvoke

SpecTimeout == InitTimeout /\ [][NextTimeout]_vars

\* C14: the record _execute_with_timeout returns has status success, timeout
\* or error: success, with the call's result, exactly when the call returned;
\* timeout exactly when the deadline fired; error, with the message, exactly
\* when the call raised an exception of its own.
C14_TimeoutRecordStatus ==
    phase_record # None =>
        LET call == phase_call[1]
            returned == phase_record[1]
            fired == DeadlineFired(call)
        IN  /\ returned.status \in {"success", "timeout", "error"}
            /\ returned.status = "success" <=>
                   (~fired /\ call.behaviour = "returns")
            /\ returned.status = "success" => returned.result = Some(call.value)
            /\ returned.status = "timeout" <=> fired
            /\ returned.status = "error" <=>
                   (~fired /\ call.behaviour # "returns")
            /\ returned.status = "error" => returned.error = Some(call.value)

\* The result of the atomic attempt that has just ended, if one has.
LastAttempt ==
    IF pc = "post" /\ ~IsParent(current_task[1])
    THEN execution_result
    ELSE IF /\ pc = "children"
            /\ subtask_results # <<>>
            /\ Recorded(subtask_results[Len(subtask_results)])
         THEN Some(subtask_results[Len(subtask_results)])
         ELSE None

\* C15: when an atomic attempt has ended, the store holds the before_task
\* checkpoint taken in that attempt, before its Act phase; when the attempt
\* completed the task (decision COMPLETE) the latest checkpoint is its
\* success checkpoint, and when the attempt failed the latest checkpoint is
\* the handler's recovery or escalation checkpoint.
C15_AttemptsAreCheckpointed ==
    LastAttempt # None =>
        LET r == LastAttempt[1]
            before == CheckpointName("before_task", r.task_id, 0)
            success == CheckpointName("success", r.task_id, 0)
        IN  /\ before \in DOMAIN checkpoints
            /\ checkpoints[before].iteration = current_iteration
            /\ checkpoints[before].timestamp >= checkpoint_calls - 1
            /\ r.final_status = "completed" =>
                   /\ success \in DOMAIN checkpoints
                   /\ checkpoints[success].timestamp = checkpoint_calls
                   /\ checkpoints[before].timestamp < checkpoints[success].timestamp
            /\ r.recovery_info # None =>
                   LET failure == FailureCheckpoint(r.recovery_info[1])
                   IN  /\ failure \in DOMAIN checkpoints
                       /\ checkpoints[failure].timestamp = checkpoint_calls
                       /\ checkpoints[before].timestamp
                              < checkpoints[failure].timestamp

\* A task is executed a second time, after a failure, and completed.
C15_Witness ==
    /\ pc = "post"
    /\ ~IsParent(current_task[1])
    /\ execution_result[1].final_status = "completed"
    /\ FailuresOf(current_task[1].id) # {}
    /\ CheckpointName("failure_recovery", current_task[1].id, 1) \in DOMAIN checkpoints

\* C16: when execute_task has returned for a task that passed the depth
\* check, atomic or parent, the store holds a checkpoint of that task taken
\* before its phases or children and one taken after them.
C16_EveryInvocationCheckpointedTwice ==
    (pc = "post" /\ execution_result # None) =>
        LET id == current_task[1].id
            before == CheckpointName("before_task", id, 0)
        IN  /\ before \in DOMAIN checkpoints
            /\ checkpoints[before].iteration = current_iteration
            /\ \E after \in DOMAIN checkpoints :
                   /\ after[1] \in {"success", "failure_recovery",
                                    "failure_escalation"}
                   /\ after[2] = id
                   /\ checkpoints[after].timestamp > checkpoints[before].timestamp

\* The ids of the subtasks of a parent whose max_depth lets no child run.
TooDeepSubtasks(t) ==
    IF IsParent(t) /\ 1 > MaxDepthOf(t)
    THEN { t.subtasks[k].id : k \in DOMAIN t.subtasks }
    ELSE {}

\* C17: execute_task for a task deeper than its max_depth returns a failure
\* that names the depth limit, and leaves no trace of the task: no checkpoint
\* of it, no failure counter, no recorded execution, and no entry of it in
\* the queue that would run it again.
C17_DepthLimitFailsAtOnce ==
    /\ (pc \in {"children", "post"} /\ IsParent(current_task[1])) =>
           \A k \in DOMAIN subtask_results :
               subtask_results[k].task_id \in TooDeepSubtasks(current_task[1]) =>
                   /\ subtask_results[k].status = "failure"
                   /\ subtask_results[k].error = "Maximum depth exceeded"
                   /\ subtask_results[k].recovery_info = None
    /\ \A i \in DOMAIN task_queue :
           \A id \in TooDeepSubtasks(task_queue[i]) :
               /\ \A name \in DOMAIN checkpoints : name[2] # id
               /\ id \notin DOMAIN failure_counts
               /\ \A j \in DOMAIN execution_history :
                      execution_history[j].task_id # id
               /\ \A j \in DOMAIN task_queue : task_queue[j].id # id

\* A parent with max_depth 0 is done: both of its children were refused.
C17_Witness ==
    /\ pc = "post"
    /\ IsParent(current_task[1])
    /\ MaxDepthOf(current_task[1]) = 0
    /\ Len(execution_result[1].subtask_results) = 2
    /\ \A k \in 1..2 :
           execution_result[1].subtask_results[k].error = "Maximum depth exceeded"
    /\ execution_result[1].status = "partial_failure"

\* C18: execute_task is never called deeper than the max_depth in force: no
\* child of a parent gets the depth-limit failure.
C18_NoCallBeyondMaxDepth ==
    \A k \in DOMAIN subtask_results :
        subtask_results[k].error # "Maximum depth exceeded"

\* ======================================================================
\* Orchestrator: the observers of the Assess phase
\* ======================================================================

\* ObserverOrchestrator.__init__: the observers enabled by default.
enabled_observers ==
    <<"build_observer", "requirements_observer", "quality_observer",
      "integration_observer">>

\* The reports an observer may come back with: a status, or none (key
\* absent), and a confidence in hundredths, or none.
ObserverReports(observer_name) ==
    [observer_type : {observer_name},
     status : {Some("pass"), Some("fail"), Some("warning"), None},
     confidence : {None, Some(60), Some(100)}]

\* Lines 319-326: the observation recorded for an observer that raised.
error_observation(observer_name) ==
    [observer_type |-> observer_name, status |-> Some("error"),
     confidence |-> Some(0)]

\* obs.get("status", "unknown")
StatusOf(obs) == IF obs.status = None THEN "unknown" ELSE obs.status[1]

\* Lines 473-480 with warning ahead of fail.
overall_status_warning_first(obs) ==
    LET statuses == { StatusOf(obs[i]) : i \in DOMAIN obs }
    IN  IF "warning" \in statuses THEN "warning"
        ELSE IF "fail" \in statuses THEN "fail"
        ELSE IF "pass" \in statuses THEN "pass"
        ELSE "unknown"

\* Lines 470-480: the overall status of a list of observations.
overall_status(obs) ==
    LET statuses == { StatusOf(obs[i]) : i \in DOMAIN obs }
    IN  IF "fail" \in statuses THEN "fail"
        ELSE IF "warning" \in statuses THEN "warning"
        ELSE IF "pass" \in statuses THEN "pass"
        ELSE "unknown"

RECURSIVE SumSeq(_)
SumSeq(xs) == IF xs = <<>> THEN 0 ELSE Head(xs) + SumSeq(Tail(xs))

\* round(sum / n, 2) in hundredths, for a mean that is no tie.
RoundedMean(xs) == (2 * SumSeq(xs) + Len(xs)) \div (2 * Len(xs))

DefaultConfidence == 50

\* Truthiness of obs.get("confidence"): present and not zero.
HasConfidence(obs) == obs.confidence # None /\ obs.confidence[1] # 0

ConfidenceOf(obs) == obs.confidence[1]

RECURSIVE MapConfidence(_)
MapConfidence(obs) ==
    IF obs = <<>> THEN <<>>
    ELSE <<ConfidenceOf(Head(obs))>> \o MapConfidence(Tail(obs))

\* Lines 482-484: the confidences that are truthy, their mean or 0.5; line 497.
avg_confidence(obs) ==
    LET confidences == MapConfidence(SelectSeq(obs, HasConfidence))
    IN  IF confidences # <<>> THEN RoundedMean(confidences) ELSE DefaultConfidence

RECURSIVE MapObserverType(_)
MapObserverType(obs) ==
    IF obs = <<>> THEN <<>>
    ELSE <<Head(obs).observer_type>> \o MapObserverType(Tail(obs))

\* _aggregate_observations
aggregate_observations(obs) ==
    [overall_status |-> overall_status(obs),
     confidence |-> avg_confidence(obs),
     observer_count |-> Len(obs),
     observers_run |-> MapObserverType(obs)]

InitObserve ==
    /\ LightIdle
    /\ OrchIdle
    /\ UnitIdle

\* Lines 301-326, one pass of the loop: the observer is skipped when its
\* instructions cannot be loaded, else its report is appended, or the error
\* observation when it raised.
Observe ==
    /\ next_observer <= Len(enabled_observers)
    /\ LET observer_name == enabled_observers[next_observer]
       IN  \/ UNCHANGED observations
           \/ \E observation \in ObserverReports(observer_name) :
                 observations' = Append(observations, observation)
           \/ observations' = Append(observations, error_observation(observer_name))
    /\ next_observer' = next_observer + 1
    /\ UNCHANGED <<phase_call, phase_record, assessment, decision_payload,
                   task_dict,
                   hubVars>>
    /\ UNCHANGED <<lightVars, orchVars>>

\* Lines 328-331: the observations are aggregated.
Aggregate ==
    /\ next_observer > Len(enabled_observers)
    /\ assessment = None
    /\ assessment' = Some(aggregate_observations(observations))
    /\ UNCHANGED <<phase_call, phase_record, next_observer, observations,
                   decision_payload, task_dict,
                   hubVars>>
    /\ UNCHANGED <<lightVars, orchVars>>

NextObserve == Observe \/ Aggregate

SpecObserve == InitObserve /\ [][NextObserve]_vars

\* ======================================================================
\* Orchestrator: properties of the aggregation
\* ======================================================================

ObservedStatuses == { StatusOf(observations[i]) : i \in DOMAIN observations }

\* C19: the overall status is fail when some observation failed; else warning
\* when some observation is a warning; else pass when some observation
\* passed; else unknown, which covers observations that are all errors or
\* carry no status, and no observation at all.
C19_AggregatePriority ==
    assessment # None =>
        LET overall == assessment[1].overall_status
        IN  /\ "fail" \in ObservedStatuses => overall = "fail"
            /\ ("fail" \notin ObservedStatuses /\ "warning" \in ObservedStatuses)
                   => overall = "warning"
            /\ (ObservedStatuses \cap {"fail", "warning"} = {}
                    /\ "pass" \in ObservedStatuses)
                   => overall = "pass"
            /\ ObservedStatuses \subseteq {"error", "unknown"}
                   => overall = "unknown"

\* Four observations: a pass, a warning, an error and a fail, in that order,
\* aggregated to fail.
C19_Witness ==
    /\ assessment # None
    /\ Len(observations) = 4
    /\ StatusOf(observations[1]) = "pass"
    /\ StatusOf(observations[2]) = "warning"
    /\ StatusOf(observations[3]) = "error"
    /\ StatusOf(observations[4]) = "fail"
    /\ assessment[1].overall_status = "fail"

\* An observation that carries a confidence value, 0 included.
CarriesConfidence(obs) == obs.confidence # None

\* C20: the aggregate confidence is the mean, to two decimals, of the
\* confidence values of the observations that carry one; an observation
\* without a confidence is left out, and an observer that raised counts with
\* its confidence 0.
C20_ConfidenceIsMeanOfPresent ==
    assessment # None =>
        LET present == MapConfidence(SelectSeq(observations, CarriesConfidence))
        IN  present # <<>> => assessment[1].confidence = RoundedMean(present)

\* C21: the aggregate holds exactly one report for each enabled observer, in
\* the order of the observers; an observer that raised is reported with status
\* error and confidence 0, next to the reports of the others.
C21_OneReportPerObserver ==
    assessment # None =>
        /\ Len(observations) = Len(enabled_observers)
        /\ assessment[1].observer_count = Len(enabled_observers)
        /\ assessment[1].observers_run = enabled_observers
        /\ \A i \in DOMAIN observations :
              StatusOf(observations[i]) = "error"
                  => observations[i].confidence = Some(0)

\* ======================================================================
\* Orchestrator: properties of the plan modifier
\* ======================================================================

\* The decision of the attempt just made was applied to the task the loop
\* picked, and modify_plan returned that value.
Applied(decision, success) ==
    /\ pc = "post"
    /\ current_task # None
    /\ execution_result # None
    /\ execution_result[1].execution_type = "atomic"
    /\ execution_result[1].final_status =
           (IF decision = "COMPLETE" THEN "completed"
            ELSE IF decision = "RETRY" THEN "retry_needed" ELSE decision)
    /\ plan_updates = Some(decision)
    /\ modify_success = Some(success)
    /\ current_task_file # None
    /\ current_task_file[1].id = current_task[1].id

\* The entries of the stored queue with a given id.
EntriesOf(id) == { i \in DOMAIN task_queue : task_queue[i].id = id }

\* The number of items in the text of a Decompose decision.
DecomposeItems == Len(parse_subtasks(DecomposeDetails))

\* The queue ends with the subtasks _sub_1 .. _sub_n of the task id, pending,
\* atomic and recording id as their parent.
EndsWithSubtasksOf(id, n) ==
    /\ Len(task_queue) > n
    /\ \A i \in 1..n :
          LET s == task_queue[Len(task_queue) - n + i]
          IN  /\ s.id = id \o "_sub_" \o ToString(i)
              /\ s.parent_id = id
              /\ s.status = "pending"
              /\ s.type = "atomic" /\ s.subtasks = <<>>
    /\ \A i \in 1..(Len(task_queue) - n) : task_queue[i].parent_id # id

\* C22: once a Decompose decision with N items has been applied, the stored
\* queue holds exactly the N new pending atomic tasks <id>_sub_1 .. <id>_sub_N
\* recording the parent's id, and the parent's stored status is decomposed.
C22_DecomposeCreatesSubtasksAndMarksParent ==
    Applied("DECOMPOSE", TRUE) =>
        /\ DecomposeItems >= 1
        /\ EndsWithSubtasksOf(current_task[1].id, DecomposeItems)
        /\ \A i \in EntriesOf(current_task[1].id) :
              task_queue[i].status = "decomposed"

\* ======================================================================
\* Orchestrator: modify_plan on its own
\* ======================================================================

DecisionTypes == {"COMPLETE", "RETRY", "DECOMPOSE", "REFINE", "ESCALATE", "UNKNOWN"}

\* Texts of action_details: the navigator's text for DECOMPOSE, an empty text,
\* a text without numbered or bulleted line, a bullet and a numbered line with
\* nothing behind them, and two items, the first with a ':'.
Payloads ==
    { DecomposeDetails,
      << Line("", FALSE, "", "") >>,
      << Line("", FALSE, "", "lit the task into smaller steps") >>,
      << Line("-", FALSE, "", ""), Line("1.", TRUE, "", "Task:") >>,
      << Line("2.", TRUE, "write the parser", "Step: write the parser"),
         Line("-", FALSE, "", "test it") >> }

InitModify ==
    /\ LightIdle
    /\ UnitIdle
    /\ executor_writes_task \in BOOLEAN
    /\ task_queue \in InitialQueues(executor_writes_task)
    /\ current_task_file = None
    /\ failure_counts = <<>>
    /\ checkpoints = <<>>
    /\ checkpoint_calls = 0
    /\ execution_history = <<>>
    /\ plan_updates = None
    /\ modify_success = None
    /\ current_iteration = 0
    /\ current_task = None
    /\ execution_result = None
    /\ subtask_results = <<>>
    /\ pc = "modify"

\* adapt_plan, lines 1736-1742: the task is read from current_task.json and
\* the navigator returns a decision with its action_details.
Decide ==
    /\ pc = "modify"
    /\ decision_payload = None
    /\ \E i \in DOMAIN task_queue, d \in DecisionTypes, details \in Payloads :
          /\ current_task_file' = Some(task_queue[i])
          /\ task_dict' = Some(task_queue[i])
          /\ decision_payload' = Some([decision |-> d, action_details |-> details])
    /\ UNCHANGED <<task_queue, failure_counts, checkpoints, checkpoint_calls,
                   execution_history, plan_updates, modify_success,
                   current_iteration, current_task, execution_result,
                   subtask_results, executor_writes_task, pc>>
    /\ UNCHANGED <<phase_call, phase_record, next_observer, observations,
                   assessment,
                   hubVars>>
    /\ UNCHANGED lightVars

\* adapt_plan, lines 1745-1751: modify_plan is applied and the decision is
\* written to plan_updates.json.
ModifyPlan ==
    /\ pc = "modify"
    /\ decision_payload # None
    /\ modify_success = None
    /\ LET d == decision_payload[1]
           m == modify_plan(CurrentEngine, d.decision, d.action_details,
                            task_dict[1])
       IN  /\ task_queue' = m.engine.queue
           /\ modify_success' = Some(m.success)
           /\ task_dict' = Some(m.task)
           /\ plan_updates' = Some(d.decision)
    /\ UNCHANGED <<current_task_file, failure_counts, checkpoints,
                   checkpoint_calls, execution_history, current_iteration,
                   current_task, execution_result, subtask_results,
                   executor_writes_task, pc>>
    /\ UNCHANGED <<phase_call, phase_record, next_observer, observations,
                   assessment, decision_payload,
                   hubVars>>
    /\ UNCHANGED lightVars

NextModify == Decide \/ ModifyPlan

SpecModify == InitModify /\ [][NextModify]_vars

\* A Decompose decision whose action_details yield no subtask description.
DecomposeWithoutSubtasks ==
    /\ decision_payload # None
    /\ decision_payload[1].decision = "DECOMPOSE"
    /\ parse_subtasks(decision_payload[1].action_details) = <<>>

\* C23: modify_plan applied to a Decompose decision that yields no subtask
\* description returns False, leaves the queue as it was and leaves the task
\* it was given, its status included, as it was.
C23_EmptyDecomposeChangesNothing ==
    [][ (DecomposeWithoutSubtasks /\ modify_success = None /\ modify_success' # None)
            => /\ modify_success' = Some(FALSE)
               /\ task_queue' = task_queue
               /\ task_dict' = task_dict ]_vars

\* modify_plan has returned False for a bullet and a numbered line that carry
\* no description.
C23_Witness ==
    /\ DecomposeWithoutSubtasks
    /\ Len(decision_payload[1].action_details) = 2
    /\ modify_success = Some(FALSE)
    /\ plan_updates = Some("DECOMPOSE")

\* ======================================================================
\* Orchestrator: properties of the decisions in a run
\* ======================================================================

\* The positions in the history where a task was escalated, by an Escalate
\* decision or by the failure handler.
EscalatedAt(id) ==
    Escalations(id)
    \cup { i \in DOMAIN execution_history :
             /\ execution_history[i].task_id = id
             /\ execution_history[i].final_status = "ESCALATE" }

\* C24: from the escalation of a task on, by an Escalate decision or by the
\* failure handler, every stored entry of the task has status escalated and
\* the task is not executed again.
C24_EscalatedTaskStaysEscalated ==
    \A id \in {execution_history[i].task_id : i \in DOMAIN execution_history} :
        \A i \in EscalatedAt(id) :
            /\ \A k \in EntriesOf(id) : task_queue[k].status = "escalated"
            /\ \A j \in DOMAIN execution_history :
                  j > i => execution_history[j].task_id # id

\* The last execution recorded ended with that final_status.
LastFinalStatus(final_status) ==
    /\ execution_history # <<>>
    /\ execution_history[Len(execution_history)].final_status = final_status

\* C25: after a Refine decision, and until the task is executed again, a
\* stored entry of the task is pending and carries the refinement notes and
\* the needs_refinement flag, so that get_next_task returns it again.
C25_RefinedTaskIsPendingWithNotes ==
    LastFinalStatus("REFINE") =>
        LET id == execution_history[Len(execution_history)].task_id
        IN  \E k \in EntriesOf(id) :
               /\ task_queue[k].status = "pending"
               /\ {"needs_refinement", "refinement_notes"} \subseteq task_queue[k].notes

\* The position of the entry that get_next_task returns.
PickedIndex ==
    FirstIndex(task_queue, {task_queue[k] : k \in {j \in DOMAIN task_queue :
                                                     NotCompleted(task_queue[j])}})

\* C26: the attempt whose decision is Complete changes the stored queue in
\* one place only: the entry that was picked gets status completed; the
\* number and the order of the entries and every other entry stay as they were.
C26_CompleteMarksOnlyTheDecidedTask ==
    [][ (pc = "execute" /\ Applied("COMPLETE", TRUE)')
            => task_queue' = [task_queue EXCEPT ![PickedIndex].status = "completed"]
      ]_vars

\* run_main_loop's return value once it has returned: the loop is left by
\* `break` or at max_iterations, and line 2016 returns True.
run_main_loop_returns == IF pc = "done" THEN Some(TRUE) ELSE None

\* Some stored task is not completed, or some task was escalated in the run.
UnresolvedOrEscalated ==
    \/ has_pending_tasks(task_queue)
    \/ \E i \in DOMAIN execution_history :
          EscalatedAt(execution_history[i].task_id) # {}

\* C27: the run ends before max_iterations only when no task is left to
\* execute, whatever tasks exhausted their attempts, and it returns False if
\* and only if unresolved or escalated tasks remain.
C27_RunReportsUnresolvedTasks ==
    pc = "done" =>
        /\ has_pending_tasks(task_queue) => current_iteration >= MaxIterations
        /\ (run_main_loop_returns = Some(FALSE)) <=> UnresolvedOrEscalated

\* C28: no two entries of the stored queue share an id, so that a task that
\* was retried has one entry that is not completed, and no more.
C28_TaskIdsUnique ==
    \A i, j \in DOMAIN task_queue :
        task_queue[i].id = task_queue[j].id => i = j

\* ======================================================================
\* TEF Light: properties of the statuses and of the original intent
\* ======================================================================

\* How far a status is: pending, then in_progress, then the resolved ones.
StatusRank(s) == IF s = "pending" THEN 0 ELSE IF s = "in_progress" THEN 1 ELSE 2

\* C29: in every step of the engine, a node that stays in the tree keeps its
\* status or moves forward, from pending to in_progress to a resolved status;
\* the one step back is from failed to pending.
C29_StatusMovesForward ==
    [][ \A p \in PathsOf(task_tree) \cap PathsOf(task_tree') :
            LET old == NodeAt(task_tree, p)
                new == NodeAt(task_tree', p)
            IN  old.id = new.id =>
                    \/ StatusRank(new.status) >= StatusRank(old.status)
                    \/ old.status = "failed" /\ new.status = "pending" ]_vars

\* C30: original_plan.json holds the task plan as it was given at project
\* initialisation, and every Adapt call receives that content, whatever trees
\* were saved as the working plan in between.
C30_OriginalIntentFixed ==
    /\ project_files.original_plan = task_plan
    /\ original_user_intent # None => original_user_intent[1] = task_plan

\* An Adapt call has received the original plan after a working plan that
\* differs from it was saved.
C30_Witness ==
    /\ original_user_intent = Some(task_plan)
    /\ lpc = "complete"
    /\ load_from_file(project_files.current_plan) # load_from_file(task_plan)
    /\ NodeCount(task_tree) > NodeCount(load_from_file(task_plan))

\* ======================================================================
\* TEF Light: find_next_task on its own
\* ======================================================================

\* find_next_task that marks the node it returns as in progress.
find_next_task_marking(tree) ==
    LET found == find_next_task(tree)
    IN  [tree |-> IF found = None THEN tree
                  ELSE SetStatus(tree, found[1], "in_progress"),
         found |-> found]

\* A call of find_next_task: the tree as the call leaves it (lines 123-136
\* assign to no node) and the node returned.
find_next_task_call(tree) == [tree |-> tree, found |-> find_next_task(tree)]

\* Trees with every combination of statuses: a single node, and a root with a
\* leaf and a node that has one child.
ProbeTrees ==
    { Leaf("r", s) : s \in NodeStatus }
    \cup { Node("r", s0, <<Leaf("a", s1), Node("b", s2, <<Leaf("b1", s3)>>)>>) :
             s0 \in NodeStatus, s1 \in NodeStatus, s2 \in NodeStatus,
             s3 \in NodeStatus }

InitFind ==
    /\ task_plan \in { PlanFile("node", t) : t \in ProbeTrees }
    /\ project_files = init_project(task_plan)
    /\ original_user_intent = None
    /\ audit_log = <<>>
    /\ task_tree = load_from_file(project_files.current_plan)
    /\ task = None
    /\ task_in_tree = FALSE
    /\ lpc = "no_call"
    /\ OrchIdle
    /\ UnitIdle

\* find_next_task is called on the tree, a first and a second time.
FindNextCall ==
    /\ lpc \in {"no_call", "first_call"}
    /\ LET c == find_next_task_call(task_tree)
       IN  /\ task_tree' = c.tree
           /\ task' = c.found
           /\ task_in_tree' = (c.found # None)
    /\ lpc' = IF lpc = "no_call" THEN "first_call" ELSE "second_call"
    /\ UNCHANGED <<task_plan, project_files, original_user_intent, audit_log>>
    /\ UNCHANGED <<orchVars, unitVars>>

NextFind == FindNextCall

SpecFind == InitFind /\ [][NextFind]_vars

Phase2Task(id, status, has_subtasks) ==
    [id |-> id, status |-> status, has_subtasks |-> has_subtasks]

\* TaskQueue.add_task
phase2_add_task(queue, t) == Append(queue, t)

\* The entries of a queue that are not completed.
Phase2Pending(queue) ==
    { queue[k] : k \in { j \in DOMAIN queue : queue[j].status # "completed" } }

\* TaskQueue.get_next_task returning the last task that is not completed.
phase2_get_next_task_last(queue) ==
    IF Phase2Pending(queue) = {} THEN None
    ELSE Some(queue[CHOOSE i \in DOMAIN queue :
                        /\ queue[i].status # "completed"
                        /\ \A j \in DOMAIN queue :
                              j > i => queue[j].status = "completed"])

\* TaskQueue.get_next_task: the first task that is not completed, or None.
phase2_get_next_task(queue) ==
    LET i == FirstIndex(queue, Phase2Pending(queue))
    IN  IF i = 0 THEN None ELSE Some(queue[i])

\* TaskQueue.mark_complete: the first entry with that id, then break.
phase2_mark_complete(queue, id) ==
    LET i == FirstIndex(queue, {queue[k] : k \in {j \in DOMAIN queue :
                                                   queue[j].id = id}})
    IN  IF i = 0 THEN queue ELSE [queue EXCEPT ![i].status = "completed"]

\* TaskQueue.has_pending_tasks looking for status 'pending'.
phase2_has_pending_tasks_strict(queue) ==
    \E i \in DOMAIN queue : queue[i].status = "pending"

\* TaskQueue.has_pending_tasks
phase2_has_pending_tasks(queue) ==
    \E i \in DOMAIN queue : queue[i].status # "completed"

\* What the executor does: it runs, its instructions are missing, or it raises
\* after current_task.json was written.
ExecutorOutcomes == {"runs", "no_instructions", "raises"}

\* AgentInvoker.invoke_executor: the result, and whether current_task.json
\* was written.  A failure result carries no task_id.
invoke_executor(t, outcome) ==
    IF outcome = "no_instructions"
    THEN [result |-> [task_id |-> None, execution_type |-> "", status |-> "failure"],
          written |-> FALSE]
    ELSE IF outcome = "raises"
    THEN [result |-> [task_id |-> None, execution_type |-> "", status |-> "failure"],
          written |-> TRUE]
    ELSE [result |-> [task_id |-> Some(t.id),
                      execution_type |-> IF t.has_subtasks THEN "parent" ELSE "atomic",
                      status |-> "success"],
          written |-> TRUE]

\* The ids of the tasks a Phase 2 run is loaded with.
Phase2Ids == {"a", "b", "c"}

\* The queues loaded: up to MaxIterations pending tasks with distinct ids, in
\* every order.
Phase2Queues ==
    { q \in UNION { [1..n -> { Phase2Task(id, "pending", s) :
                                 id \in Phase2Ids, s \in BOOLEAN }] :
                    n \in 0..MaxIterations } :
        /\ Len(q) <= Cardinality(Phase2Ids)
        /\ \A i, j \in DOMAIN q : q[i].id = q[j].id => i = j }

InitPhase2 ==
    /\ LightIdle
    /\ UnitIdle
    /\ task_queue \in Phase2Queues
    /\ current_task_file = None
    /\ failure_counts = <<>>
    /\ checkpoints = <<>>
    /\ checkpoint_calls = 0
    /\ execution_history = <<>>
    /\ plan_updates = None
    /\ modify_success = None
    /\ current_iteration = 0
    /\ current_task = None
    /\ execution_result = None
    /\ subtask_results = <<>>
    /\ executor_writes_task = TRUE
    /\ pc = "phase2_loop"

Phase2Frame ==
    /\ UNCHANGED <<failure_counts, checkpoints, checkpoint_calls, modify_success,
                   subtask_results, executor_writes_task>>
    /\ UNCHANGED <<phase_call, phase_record, next_observer, observations,
                   decision_payload, task_dict,
                   hubVars>>
    /\ UNCHANGED lightVars

\* Lines 363-376: the iteration is counted and the next task is taken.
Phase2Pick ==
    /\ pc = "phase2_loop"
    /\ current_iteration < MaxIterations
    /\ phase2_has_pending_tasks(task_queue)
    /\ current_iteration' = current_iteration + 1
    /\ current_task' = phase2_get_next_task(task_queue)
    /\ execution_result' = None
    /\ pc' = "phase2_act"
    /\ UNCHANGED <<task_queue, current_task_file, execution_history, plan_updates,
                   assessment>>
    /\ Phase2Frame

\* Lines 363-370 and 396-400: the loop ends at max_iterations, or in the
\* iteration that finds no pending task, and run_main_loop returns True.
Phase2Exit ==
    /\ pc = "phase2_loop"
    /\ \/ /\ current_iteration >= MaxIterations
          /\ UNCHANGED current_iteration
       \/ /\ current_iteration < MaxIterations
          /\ ~phase2_has_pending_tasks(task_queue)
          /\ current_iteration' = current_iteration + 1
    /\ pc' = "phase2_done"
    /\ UNCHANGED <<task_queue, current_task_file, execution_history, plan_updates,
                   current_task, execution_result, assessment>>
    /\ Phase2Frame

\* execute_task, lines 286-310: the executor is invoked and its result, with
\* the iteration, is appended to the execution history.
Phase2Act ==
    /\ pc = "phase2_act"
    /\ \E outcome \in ExecutorOutcomes :
          LET x == invoke_executor(current_task[1], outcome)
              enhanced_result ==
                  [task_id |-> x.result.task_id,
                   execution_type |-> x.result.execution_type,
                   status |-> x.result.status, iteration |-> current_iteration]
          IN  /\ current_task_file' =
                     IF x.written THEN Some(current_task[1]) ELSE current_task_file
              /\ execution_history' = Append(execution_history, enhanced_result)
              /\ execution_result' = Some(enhanced_result)
    /\ pc' = "phase2_adapt"
    /\ UNCHANGED <<task_queue, plan_updates, current_iteration, current_task,
                   assessment>>
    /\ Phase2Frame

\* Lines 381-392: the assessment (always pass) and the decision (always
\* continue) are written, and the task is marked completed.
Phase2AssessAdapt ==
    /\ pc = "phase2_adapt"
    /\ assessment' = Some([execution_id |-> execution_result[1].task_id,
                           overall_status |-> "pass"])
    /\ LET decision == "continue"
       IN  /\ plan_updates' = Some(decision)
           /\ task_queue' = IF decision = "continue"
                            THEN phase2_mark_complete(task_queue, current_task[1].id)
                            ELSE task_queue
    /\ pc' = "phase2_loop"
    /\ UNCHANGED <<current_task_file, execution_history, current_iteration,
                   current_task, execution_result>>
    /\ Phase2Frame

NextPhase2 == Phase2Pick \/ Phase2Exit \/ Phase2Act \/ Phase2AssessAdapt

SpecPhase2 == InitPhase2 /\ [][NextPhase2]_vars

\* run_main_loop's return value once the loop is left: line 400 returns True.
phase2_run_returns == IF pc = "phase2_done" THEN Some(TRUE) ELSE None

\* The number of tasks the loop has finished with.
Phase2Finished ==
    IF pc \in {"phase2_act", "phase2_adapt"}
    THEN current_iteration - 1
    ELSE IF pc = "phase2_done" THEN Len(execution_history)
    ELSE current_iteration

\* C32: in a run over n <= max_iterations tasks with distinct ids, iteration
\* i executes the i-th task of the queue and appends one record to the
\* history; the tasks before it are completed and those after it are not; when
\* run_main_loop returns, it returns True, every task is completed and the
\* history holds one record for each task.
C32_Phase2RunsEachTaskOnceInOrder ==
    /\ pc \in {"phase2_act", "phase2_adapt"} =>
          /\ current_iteration <= Len(task_queue)
          /\ current_task = Some(task_queue[current_iteration])
          /\ Len(execution_history) =
                 IF pc = "phase2_act" THEN current_iteration - 1
                 ELSE current_iteration
    /\ \A k \in DOMAIN task_queue :
          (task_queue[k].status = "completed") <=> (k <= Phase2Finished)
    /\ \A k \in DOMAIN execution_history : execution_history[k].iteration = k
    /\ pc = "phase2_done" =>
          /\ phase2_run_returns = Some(TRUE)
          /\ Len(execution_history) = Len(task_queue)
          /\ \A k \in DOMAIN task_queue : task_queue[k].status = "completed"

\* A run over three tasks, max_iterations being three, has returned, the
\* second execution having failed.
C32_Witness ==
    /\ pc = "phase2_done"
    /\ Len(task_queue) = 3
    /\ task_queue[1].id = "c" /\ task_queue[2].id = "a"
    /\ Len(execution_history) = 3
    /\ execution_history[2].status = "failure"
    /\ execution_history[3].task_id = Some("b")

\* ======================================================================
\* Phase 2 orchestrator: the task queue on its own
\* ======================================================================

\* Most entries the queue is given.
MaxQueueLen == 3

\* The tasks added: two ids, so that entries may share one, and statuses that
\* are and are not 'completed'.
QueueTasks ==
    { Phase2Task(id, status, FALSE) :
        id \in {"a", "b"}, status \in {"pending", "in_progress", "completed"} }

InitQueue ==
    /\ LightIdle
    /\ UnitIdle
    /\ task_queue = <<>>
    /\ current_task_file = None
    /\ failure_counts = <<>>
    /\ checkpoints = <<>>
    /\ checkpoint_calls = 0
    /\ execution_history = <<>>
    /\ plan_updates = None
    /\ modify_success = None
    /\ current_iteration = 0
    /\ current_task = None
    /\ execution_result = None
    /\ subtask_results = <<>>
    /\ executor_writes_task = FALSE
    /\ pc = "queue_new"

QueueFrame ==
    /\ UNCHANGED <<current_task_file, failure_counts, checkpoints, checkpoint_calls,
                   execution_history, plan_updates, modify_success,
                   current_iteration, execution_result, subtask_results,
                   executor_writes_task>>
    /\ UNCHANGED <<lightVars, unitVars>>

\* add_task(task) returns True; current_task keeps the task that was added.
QueueAdd ==
    /\ pc \in {"queue_new", "queue_added", "queue_marked"}
    /\ Len(task_queue) < MaxQueueLen
    /\ \E t \in QueueTasks :
          /\ task_queue' = phase2_add_task(task_queue, t)
          /\ current_task' = Some(t)
    /\ pc' = "queue_added"
    /\ QueueFrame

\* mark_complete(task_id), for an id that is or is not in the queue.
QueueMarkComplete ==
    /\ pc \in {"queue_new", "queue_added", "queue_marked"}
    /\ \E id \in {"a", "b"} :
          task_queue' = phase2_mark_complete(task_queue, id)
    /\ current_task' = None
    /\ pc' = "queue_marked"
    /\ QueueFrame

NextQueue == QueueAdd \/ QueueMarkComplete

SpecQueue == InitQueue /\ [][NextQueue]_vars

\* C33: right after add_task of a task that is not completed,
\* has_pending_tasks is true; and in every state has_pending_tasks is true if
\* and only if get_next_task returns a task, which is the entry added earliest
\* among those whose status is not completed.
C33_QueueConsistentAboutPending ==
    LET next == phase2_get_next_task(task_queue)
    IN  /\ (pc = "queue_added" /\ current_task[1].status # "completed")
               => phase2_has_pending_tasks(task_queue)
        /\ phase2_has_pending_tasks(task_queue) <=> (next # None)
        /\ next # None =>
              \E i \in DOMAIN task_queue :
                 /\ task_queue[i] = next[1]
                 /\ next[1].status # "completed"
                 /\ \A j \in 1..(i - 1) : task_queue[j].status = "completed"

\* A task in progress was added behind a completed one: it is the next task.
C33_Witness ==
    /\ pc = "queue_added"
    /\ Len(task_queue) = 2
    /\ task_queue[1].status = "completed"
    /\ task_queue[2].status = "in_progress"
    /\ phase2_get_next_task(task_queue) = Some(task_queue[2])

\* ======================================================================
\* TEF Light: properties of the loop
\* ======================================================================

\* C34: when the iteration that processed a task has ended, the node of that
\* task in the current tree, which is the updated tree when Adapt returned
\* one, has status completed.
C34_ProcessedTaskIsCompleted ==
    (lpc = "find" /\ task # None) =>
        NodeAt(task_tree, task[1]).status = "completed"

\* ======================================================================
\* Orchestrator: properties of the loop bound
\* ======================================================================

\* C35: the iteration count never exceeds max_iterations; a top-level
\* execution starts only in the step that counts a new iteration, with a task
\* that is not completed, so that there are at most max_iterations of them
\* however often a task is queued again; and the loop ends before
\* max_iterations only in the iteration that finds no task that is not
\* completed, which executes nothing.
C35_LoopBoundedByMaxIterations ==
    /\ [](/\ current_iteration <= MaxIterations
          /\ pc \in {"execute", "children", "post"} =>
                current_task # None /\ current_iteration >= 1
          /\ pc = "done" =>
                \/ current_iteration >= MaxIterations
                \/ ~has_pending_tasks(task_queue))
    /\ [][ /\ (pc' = "execute" /\ pc # "execute") =>
                /\ pc = "loop"
                /\ current_iteration' = current_iteration + 1
                /\ has_pending_tasks(task_queue)
           /\ current_iteration' # current_iteration =>
                /\ pc = "loop"
                /\ current_iteration' = current_iteration + 1
                /\ \/ pc' = "execute"
                   \/ pc' = "done" /\ ~has_pending_tasks(task_queue) ]_vars

\* The run has ended at max_iterations with a task that was queued again in
\* every iteration and still is not completed.
C35_Witness ==
    /\ pc = "done"
    /\ current_iteration = MaxIterations
    /\ Len(execution_history) = MaxIterations
    /\ has_pending_tasks(task_queue)
    /\ \A i \in DOMAIN execution_history :
          /\ execution_history[i].final_status = "retry_needed"
          /\ execution_history[i].task_id = task_queue[1].id

\* ---------------------------------------------------------------------------
\* The audit log of TEF Light
\* ---------------------------------------------------------------------------

\* The records execute_task writes for the task it picked, lines 94-116.
RecordsOfPicked ==
    LET node == NodeAt(task_tree, task[1])
        acting == IF node.children = <<>>
                  THEN <<[phase |-> "ACT", task_id |-> node.id]>>
                  ELSE <<>>
    IN  acting \o <<[phase |-> "ASSESS", task_id |-> node.id],
                    [phase |-> "ADAPT", task_id |-> node.id]>>

\* Every record stands in its place of a group ACT, ASSESS, ADAPT of one task.
AuditLogOrdered ==
    \A i \in 1..Len(audit_log) :
        LET r == audit_log[i]
        IN  /\ r.phase \in {"ACT", "ASSESS", "ADAPT"}
            /\ r.phase = "ACT" =>
                   /\ i = 1 \/ audit_log[i - 1].phase = "ADAPT"
                   /\ i < Len(audit_log)
                   /\ audit_log[i + 1] = [phase |-> "ASSESS", task_id |-> r.task_id]
            /\ r.phase = "ASSESS" =>
                   /\ \/ i = 1
                      \/ audit_log[i - 1].phase = "ADAPT"
                      \/ audit_log[i - 1] = [phase |-> "ACT", task_id |-> r.task_id]
                   /\ i < Len(audit_log)
                   /\ audit_log[i + 1] = [phase |-> "ADAPT", task_id |-> r.task_id]
            /\ r.phase = "ADAPT" =>
                   /\ i > 1
                   /\ audit_log[i - 1] = [phase |-> "ASSESS", task_id |-> r.task_id]

\* C36: the audit log is append-only and ordered by phase: for every task the
\* TEF Light loop picks the records appear as ACT (only when the task is a
\* leaf), ASSESS, ADAPT, all before any record of the next task, and no earlier
\* record is ever changed or removed.
C36_AuditLogAppendOnlyAndOrdered ==
    /\ [](AuditLogOrdered)
    /\ [][/\ Len(audit_log') >= Len(audit_log)
          /\ SubSeq(audit_log', 1, Len(audit_log)) = audit_log
          /\ audit_log' # audit_log =>
                 /\ lpc = "adapt"
                 /\ audit_log' = audit_log \o RecordsOfPicked]_vars

\* Two tasks went through the loop and left their records behind.
C36_Witness ==
    /\ lpc = "complete"
    /\ Len(audit_log) >= 6
    /\ audit_log[1].phase = "ACT"
    /\ audit_log[Len(audit_log)].task_id # audit_log[1].task_id

\* ---------------------------------------------------------------------------
\* Failure counters and their snapshots in checkpoints
\* ---------------------------------------------------------------------------

\* recovery_metadata["failure_counts"] of a stored checkpoint, line 866: the
\* outer dict was copied, the counters of each id in it are those of
\* recovery_state["failure_counts"].
failure_snapshot(checkpoint, counts) ==
    [id \in checkpoint.failure_keys |-> counts[id]]

\* C37: the failure-count snapshot stored in a checkpoint does not change when
\* later failures are recorded for the same task.
C37_SnapshotKeepsItsCounts ==
    [][\A name \in DOMAIN checkpoints :
           (/\ name \in DOMAIN checkpoints'
            /\ checkpoints'[name].timestamp = checkpoints[name].timestamp)
           => failure_snapshot(checkpoints'[name], failure_counts')
                  = failure_snapshot(checkpoints[name], failure_counts)]_vars

RECURSIVE SumOver(_, _)
\* sum(by_phase.values())
SumOver(f, keys) ==
    IF keys = {}
    THEN 0
    ELSE LET k == CHOOSE k \in keys : TRUE
         IN  f[k] + SumOver(f, keys \ {k})

\* The total of every task is the sum of its per-phase counts.
TotalsAreSums ==
    \A id \in DOMAIN failure_counts :
        LET c == failure_counts[id]
        IN  /\ c.total = SumOver(c.by_phase, DOMAIN c.by_phase)
            /\ c.total >= 1

\* The counters of `id` before it failed for the first time.
CountsBefore(id) ==
    IF id \in DOMAIN failure_counts
    THEN failure_counts[id]
    ELSE [total |-> 0, by_phase |-> <<>>]

PhaseCount(c, phase) == IF phase \in DOMAIN c.by_phase THEN c.by_phase[phase] ELSE 0

\* One step leaves the counters of a task alone or counts one failure for it:
\* the total and the count of one phase go up by one.
CountersStep ==
    /\ DOMAIN failure_counts \subseteq DOMAIN failure_counts'
    /\ \A id \in DOMAIN failure_counts' :
           LET old == CountsBefore(id)
               new == failure_counts'[id]
           IN  \/ new = old
               \/ /\ new.total = old.total + 1
                  /\ DOMAIN old.by_phase \subseteq DOMAIN new.by_phase
                  /\ \E phase \in DOMAIN new.by_phase :
                         /\ new.by_phase[phase] = PhaseCount(old, phase) + 1
                         /\ \A other \in DOMAIN new.by_phase \ {phase} :
                                new.by_phase[other] = PhaseCount(old, other)

\* C38: in every reachable state the failure total of every task is the sum of
\* its per-phase failure counts; both only ever increase, by exactly one per
\* handled failure, and are never reset, also after the task later succeeds.
C38_FailureTotalsAreSumsAndGrow ==
    /\ [](TotalsAreSums)
    /\ [][CountersStep]_vars

\* A task that failed before has succeeded and kept its counters.
C38_Witness ==
    \E i \in DOMAIN execution_history :
        LET r == execution_history[i]
        IN  /\ r.status = "success"
            /\ r.task_id \in DOMAIN failure_counts
            /\ failure_counts[r.task_id].total >= 1
            /\ \E j \in 1..(i - 1) :
                   /\ execution_history[j].task_id = r.task_id
                   /\ execution_history[j].status = "failure"

\* ======================================================================
\* Agent communication hub: the message store on its own
\* ======================================================================

\* Most messages sent in a run explored.
MaxMessages == 3

HubAgents == {"executor", "navigator"}

HubRecipients == HubAgents \cup {"all"}

HubPriorities == {1, 5}

\* AgentMessage; the timestamp stands for timestamp and message_id.
AgentMessage(sender, recipient, priority, timestamp) ==
    [sender |-> sender, recipient |-> recipient, priority |-> priority,
     timestamp |-> timestamp]

\* The sort key of line 84 orders a before b.
KeyBefore(a, b) ==
    \/ a.priority < b.priority
    \/ a.priority = b.priority /\ a.timestamp < b.timestamp

RECURSIVE InsertSorted(_, _)
\* list.sort on a sorted list with one element appended: the element moves
\* in front of the first one whose key is greater.
InsertSorted(sorted, m) ==
    IF sorted = <<>>
    THEN <<m>>
    ELSE IF KeyBefore(m, Head(sorted))
         THEN <<m>> \o sorted
         ELSE <<Head(sorted)>> \o InsertSorted(Tail(sorted), m)

\* send_message: append, sort by (priority, timestamp), save.
send_message(store, sender, recipient, priority, now) ==
    InsertSorted(store, AgentMessage(sender, recipient, priority, now))

\* Line 101: the message is for the agent.
AddressedTo(m, agent_name) == m.recipient = agent_name \/ m.recipient = "all"

\* get_messages_for_agent writing back what it read.
get_messages_for_agent_keeping(store, agent_name, mark_as_read) ==
    LET found == SelectSeq(store, LAMBDA m : AddressedTo(m, agent_name))
    IN  [messages |-> found, store |-> store]

\* get_messages_for_agent: the messages for the agent, and the store after
\* the call.
get_messages_for_agent(store, agent_name, mark_as_read) ==
    LET found == SelectSeq(store, LAMBDA m : AddressedTo(m, agent_name))
        remaining_messages ==
            SelectSeq(store, LAMBDA m : ~AddressedTo(m, agent_name) \/ ~mark_as_read)
    IN  [messages |-> found,
         store |-> IF mark_as_read /\ found # <<>>
                   THEN remaining_messages
                   ELSE store]

\* cleanup_old_messages: the messages newer than the cutoff stay.
cleanup_old_messages(store, cutoff_time) ==
    SelectSeq(store, LAMBDA m : m.timestamp > cutoff_time)

MessagesIn(seq) == { seq[i] : i \in DOMAIN seq }

InitHub ==
    /\ LightIdle
    /\ OrchIdle
    /\ UnitIdle

HubFrame ==
    /\ UNCHANGED <<phase_call, phase_record, next_observer, observations,
                   assessment, decision_payload, task_dict>>
    /\ UNCHANGED <<lightVars, orchVars>>

HubSend ==
    /\ hub_clock < MaxMessages
    /\ \E sender \in HubAgents, recipient \in HubRecipients,
          priority \in HubPriorities :
          messages' = send_message(messages, sender, recipient, priority,
                                   hub_clock + 1)
    /\ hub_clock' = hub_clock + 1
    /\ read_result' = None
    /\ UNCHANGED delivered
    /\ HubFrame

HubRead ==
    /\ \E agent_name \in HubAgents, mark_as_read \in BOOLEAN :
          LET got == get_messages_for_agent(messages, agent_name, mark_as_read)
          IN  /\ messages' = got.store
              /\ read_result' = Some([agent |-> agent_name,
                                      mark_as_read |-> mark_as_read,
                                      messages |-> got.messages])
              /\ delivered' = IF mark_as_read
                              THEN delivered \cup MessagesIn(got.messages)
                              ELSE delivered
    /\ UNCHANGED hub_clock
    /\ HubFrame

HubCleanup ==
    /\ \E cutoff_time \in 1..hub_clock :
          messages' = cleanup_old_messages(messages, cutoff_time)
    /\ read_result' = None
    /\ UNCHANGED <<hub_clock, delivered>>
    /\ HubFrame

NextHub == HubSend \/ HubRead \/ HubCleanup

SpecHub == InitHub /\ [][NextHub]_vars

\* What one read does to the store, and what it may return.
ReadStep ==
    read_result' # None /\ (read_result' # read_result \/ messages' # messages) =>
        LET r == read_result'[1]
        IN  /\ r.messages = SelectSeq(messages, LAMBDA m : AddressedTo(m, r.agent))
            /\ MessagesIn(r.messages) \cap delivered = {}
            /\ r.mark_as_read =>
                   /\ MessagesIn(r.messages) \cap MessagesIn(messages') = {}
                   /\ messages' = SelectSeq(messages,
                                            LAMBDA m : ~AddressedTo(m, r.agent))
            /\ ~r.mark_as_read => messages' = messages

\* C39: a message returned by get_messages_for_agent(agent, mark_as_read=True)
\* is removed from the store and is never returned by any later read of any
\* agent, while messages addressed to other agents are kept; a read with
\* mark_as_read=False leaves the store unchanged.
C39_ReadMessagesLeaveTheStore ==
    /\ [](MessagesIn(messages) \cap delivered = {})
    /\ [][ReadStep]_vars

\* A marking read returned a message and left another agent's in the store.
C39_Witness ==
    /\ read_result # None
    /\ read_result[1].mark_as_read
    /\ read_result[1].messages # <<>>
    /\ messages # <<>>
    /\ \E m \in delivered : m.recipient = "all"

====
